---- MODULE Spec2Model ----
(***************************************************************************)
(* A model of the funnel-guard analysis core:                              *)
(*   events -> buildSnapshots -> calculateConversionRates -> detectBreaks  *)
(*          -> analyzeCauses -> diagnoses.                                 *)
(* and of what surrounds it: the CSV loaders, the diagnosis service, the   *)
(* event repository and the command line.                                  *)
(*                                                                         *)
(* Conventions.                                                            *)
(*  - A string is a sequence of tokens.  The tokens are "|", "*", the      *)
(*    letters "a" and "b", and the date tokens "01".."24"; a date token    *)
(*    stands for one whole "YYYY-MM-DD" text (consecutive tokens are       *)
(*    consecutive calendar days), which holds no "|".  The CSV loaders     *)
(*    read their fields character by character, so there a text is the    *)
(*    sequence of its characters.                                          *)
(*  - JavaScript numbers are modelled as exact rationals [n, d] (d > 0).   *)
(*    Math.sqrt is never taken: the model keeps the squares (variance,     *)
(*    zScoreSq) together with the sign of the z-score.                     *)
(***************************************************************************)
EXTENDS Integers, Sequences, FiniteSets, TLC

VARIABLES
  pc,               \* which call comes next
  events,           \* Event[] handed to buildSnapshots
  snapshots,        \* FunnelSnapshot[] returned by buildSnapshots
  conversionRates,  \* ConversionRates[] (returned by calculateConversionRates, or the caller's)
  detectorConfig,   \* BreakDetectorConfig (after the merge onto the defaults)
  allBreaks,        \* detectBreaks' local allBreaks: the raw flags before deduplication
  breaks,           \* Break[] returned by detectBreaks (or the caller's, for analyzeCauses)
  changes,          \* Change[] handed to analyzeCauses
  analyzerConfig,   \* CauseAnalyzerConfig (after the merge onto the defaults)
  diagnoses,        \* Diagnosis[] returned by analyzeCauses
  rows,             \* the records csv-parse returns for a file (loaders)
  loadErrors,       \* LoaderError[] returned by a loader
  metadata,         \* DiagnosisResult.metadata returned by the service
  db,               \* the database: the rows of its events table and the last rowid given
  argv,             \* process.argv of the CLI
  exitCode          \* <<n>> once the process has exited with code n, <<>> before

\* The variables of the loaders, which the engine leaves alone.
loaderVars == <<rows, loadErrors>>

\* The variables of the CLI process.
cliVars == <<argv, exitCode>>

vars == <<pc, events, snapshots, conversionRates, detectorConfig, allBreaks, breaks,
          changes, analyzerConfig, diagnoses, rows, loadErrors, metadata, db, argv, exitCode>>

(***************************************************************************)
(* Bounds of the model.                                                    *)
(***************************************************************************)
MaxEvents == 2
MaxDay == 4

(***************************************************************************)
(* Sequences and strings.                                                  *)
(***************************************************************************)
Range(s) == {s[i] : i \in 1..Len(s)}

SeqsUpTo(S, n) == UNION {[1..k -> S] : k \in 0..n}

RECURSIVE SumSeq(_)
SumSeq(s) == IF s = <<>> THEN 0 ELSE Head(s) + SumSeq(Tail(s))

Reverse(s) == [i \in 1..Len(s) |-> s[Len(s) + 1 - i]]

\* Array.prototype.filter with the predicate given as the set of kept indices.
RECURSIVE KeepIdx(_, _, _)
KeepIdx(s, keep, i) ==
  IF i > Len(s) THEN <<>>
  ELSE (IF i \in keep THEN <<s[i]>> ELSE <<>>) \o KeepIdx(s, keep, i + 1)

\* The date tokens, in calendar order.
DateTok ==
  <<"01", "02", "03", "04", "05", "06", "07", "08", "09", "10", "11", "12",
    "13", "14", "15", "16", "17", "18", "19", "20", "21", "22", "23", "24">>

\* Collation rank of a token (localeCompare: symbols, then digits, then letters).
TokRank(t) ==
  CASE t = "*" -> 1
    [] t = "|" -> 2
    [] t = "a" -> 40
    [] t = "b" -> 41
    [] OTHER -> 2 + (CHOOSE k \in 1..Len(DateTok) : DateTok[k] = t)

\* a.localeCompare(b): -1, 0 or 1.
RECURSIVE localeCompare(_, _)
localeCompare(a, b) ==
  IF a = <<>> /\ b = <<>> THEN 0
  ELSE IF a = <<>> THEN -1
  ELSE IF b = <<>> THEN 1
  ELSE IF TokRank(Head(a)) < TokRank(Head(b)) THEN -1
  ELSE IF TokRank(Head(a)) > TokRank(Head(b)) THEN 1
  ELSE localeCompare(Tail(a), Tail(b))

\* String.prototype.split(sep): the segments between the separators.
RECURSIVE SplitFrom(_, _, _)
SplitFrom(s, sep, cur) ==
  IF s = <<>> THEN <<cur>>
  ELSE IF Head(s) = sep THEN <<cur>> \o SplitFrom(Tail(s), sep, <<>>)
  ELSE SplitFrom(Tail(s), sep, Append(cur, Head(s)))

Split(s, sep) == SplitFrom(s, sep, <<>>)

\* Array.prototype.sort (stable since ES2019) of s by ascending key, key[i] the
\* rank (0..Len(s)-1) of s[i] under the comparator: elements of equal rank keep
\* their order.
RECURSIVE SortFromKey(_, _, _)
SortFromKey(s, key, v) ==
  IF v >= Len(s) THEN <<>>
  ELSE KeepIdx(s, {i \in 1..Len(s) : key[i] = v}, 1) \o SortFromKey(s, key, v + 1)

SortByKey(s, key) == SortFromKey(s, key, 0)

(***************************************************************************)
(* JavaScript numbers as exact rationals [n |-> numerator, d |-> denominator], *)
(* kept in lowest terms with d > 0.  d = 0 stands for the non-finite values of *)
(* a division by zero: n = 1 Infinity, n = -1 -Infinity, n = 0 NaN; the        *)
(* comparisons below then answer as IEEE 754 does (every comparison with NaN   *)
(* is false).                                                                  *)
(***************************************************************************)
Abs(x) == IF x < 0 THEN -x ELSE x

Sign(x) == IF x < 0 THEN -1 ELSE IF x > 0 THEN 1 ELSE 0

RECURSIVE GCD(_, _)
GCD(a, b) == IF b = 0 THEN a ELSE GCD(b, a % b)

Rat(n, d) ==
  IF d = 0 THEN [n |-> Sign(n), d |-> 0]
  ELSE LET g == GCD(Abs(n), Abs(d))
       IN  [n |-> Sign(d) * (n \div g), d |-> Abs(d) \div g]

Zero == Rat(0, 1)

RAdd(a, b) == Rat(a.n * b.d + b.n * a.d, a.d * b.d)
RSub(a, b) == Rat(a.n * b.d - b.n * a.d, a.d * b.d)
RMul(a, b) == Rat(a.n * b.n, a.d * b.d)
\* a / b in JavaScript: a division by zero gives Infinity, -Infinity or NaN.
RDiv(a, b) == IF b.n = 0 THEN Rat(a.n, 0) ELSE Rat(a.n * b.d, a.d * b.n)

IsNaN(a) == a.d = 0 /\ a.n = 0
RLt(a, b) == ~IsNaN(a) /\ ~IsNaN(b) /\ a.n * b.d < b.n * a.d
RLe(a, b) == ~IsNaN(a) /\ ~IsNaN(b) /\ a.n * b.d <= b.n * a.d
RGt(a, b) == RLt(b, a)
RGe(a, b) == RLe(b, a)
RMax(a, b) == IF RGt(b, a) THEN b ELSE a
RAbs(a) == [n |-> Abs(a.n), d |-> a.d]

(***************************************************************************)
(* Entities.                                                               *)
(***************************************************************************)
STAGE_ORDER == <<"impression", "click", "landing", "lead", "purchase">>

FunnelStage == Range(STAGE_ORDER)

\* The adjacent stage pairs, by the index of their from-stage.
StagePairs == 1..(Len(STAGE_ORDER) - 1)

(***************************************************************************)
(* Funnel Analyzer.                                                        *)
(***************************************************************************)
\* `${event.funnelId}|${event.date}`
EventKey(event) == event.funnelId \o <<"|">> \o event.date

\* One pass of the grouping loop: grouped is the insertion-ordered Map, a sequence
\* of [key, stageCounts], stageCounts a function on the stages seen so far.
AddEvent(grouped, event) ==
  LET key == EventKey(event)
      at  == {i \in 1..Len(grouped) : grouped[i].key = key}
      g   == IF at = {} THEN Append(grouped, [key |-> key, stageCounts |-> <<>>])
             ELSE grouped
      i   == CHOOSE j \in 1..Len(g) : g[j].key = key
      sc  == g[i].stageCounts
      existing == IF event.stage \in DOMAIN sc THEN sc[event.stage] ELSE 0
  IN  [g EXCEPT ![i].stageCounts =
         [s \in (DOMAIN sc) \cup {event.stage} |->
            IF s = event.stage THEN existing + event.count ELSE sc[s]]]

RECURSIVE GroupEvents(_, _)
GroupEvents(evs, grouped) ==
  IF evs = <<>> THEN grouped
  ELSE LET next == AddEvent(grouped, Head(evs))
       IN  IF Len(next) > 0 THEN GroupEvents(Tail(evs), next) ELSE next

\* const [funnelId, date] = key.split("|"), and the counts of the 5 stages.
SnapshotOfGroup(g) ==
  LET parts == Split(g.key, "|")
  IN  [date        |-> parts[2],
       funnelId    |-> parts[1],
       stageCounts |-> [s \in FunnelStage |->
                          IF s \in DOMAIN g.stageCounts THEN g.stageCounts[s] ELSE 0]]

SnapshotCompare(a, b) ==
  IF a.funnelId # b.funnelId THEN localeCompare(a.funnelId, b.funnelId)
  ELSE localeCompare(a.date, b.date)

buildSnapshots(evs) ==
  LET grouped == GroupEvents(evs, <<>>)
      unsorted == [i \in 1..Len(grouped) |-> SnapshotOfGroup(grouped[i])]
      key == [i \in 1..Len(unsorted) |->
                Cardinality({j \in 1..Len(unsorted) :
                               SnapshotCompare(unsorted[j], unsorted[i]) < 0})]
  IN  SortByKey(unsorted, key)

\* A variant without the fromCount > 0 guard: it divides whatever fromCount is.
RatesOfSnapshotUnguarded(snapshot) ==
  [date     |-> snapshot.date,
   funnelId |-> snapshot.funnelId,
   rates    |-> [i \in StagePairs |->
                   LET fromCount == snapshot.stageCounts[STAGE_ORDER[i]]
                       toCount   == snapshot.stageCounts[STAGE_ORDER[i + 1]]
                   IN  [fromStage |-> STAGE_ORDER[i],
                        toStage   |-> STAGE_ORDER[i + 1],
                        rate      |-> RDiv(Rat(toCount, 1), Rat(fromCount, 1)),
                        fromCount |-> fromCount,
                        toCount   |-> toCount]]]

\* One ConversionRates record per snapshot, the 4 adjacent pairs in pipeline order.
RatesOfSnapshot(snapshot) ==
  [date     |-> snapshot.date,
   funnelId |-> snapshot.funnelId,
   rates    |-> [i \in StagePairs |->
                   LET fromCount == snapshot.stageCounts[STAGE_ORDER[i]]
                       toCount   == snapshot.stageCounts[STAGE_ORDER[i + 1]]
                   IN  [fromStage |-> STAGE_ORDER[i],
                        toStage   |-> STAGE_ORDER[i + 1],
                        rate      |-> IF fromCount > 0
                                      THEN RDiv(Rat(toCount, 1), Rat(fromCount, 1))
                                      ELSE Zero,
                        fromCount |-> fromCount,
                        toCount   |-> toCount]]]

calculateConversionRates(snaps) == [i \in 1..Len(snaps) |-> RatesOfSnapshot(snaps[i])]

(***************************************************************************)
(* Time utilities.                                                         *)
(***************************************************************************)
\* dayjs(date).isValid(), and the day the text names.
ValidDate(date) == Len(date) = 1 /\ \E k \in 1..Len(DateTok) : DateTok[k] = date[1]

DayNum(date) == CHOOSE k \in 1..Len(DateTok) : DateTok[k] = date[1]

\* dayjs(to).diff(dayjs(from), "day"): whole days from `from` to `to`, NaN when
\* either text is no date.
daysDiff(from, to) ==
  IF ValidDate(from) /\ ValidDate(to) THEN Rat(DayNum(to) - DayNum(from), 1)
  ELSE Rat(0, 0)

\* The sort key of each text of a list under a.localeCompare(b).
CollationKeys(texts) ==
  [i \in 1..Len(texts) |->
     Cardinality({j \in 1..Len(texts) : localeCompare(texts[j], texts[i]) < 0})]

(***************************************************************************)
(* Break Detector.                                                         *)
(***************************************************************************)
\* Arithmetic mean (0 for no value).
RECURSIVE RSum(_)
RSum(values) == IF values = <<>> THEN Zero ELSE RAdd(Head(values), RSum(Tail(values)))

mean(values) ==
  IF Len(values) = 0 THEN Zero ELSE RDiv(RSum(values), Rat(Len(values), 1))

\* The square of stddev(values): the sample variance (n - 1), 0 below 2 values.
stddevSq(values) ==
  IF Len(values) < 2 THEN Zero
  ELSE LET avg == mean(values)
           squaredDiffs == [i \in 1..Len(values) |->
                              RMul(RSub(values[i], avg), RSub(values[i], avg))]
       IN  RDiv(RSum(squaredDiffs), Rat(Len(values) - 1, 1))

\* A variant of classifySeverity whose comparisons are not strict.
classifySeverityInclusive(relativeDrop, zScoreSq) ==
  IF RGe(relativeDrop, Rat(40, 100)) \/ RGe(zScoreSq, Rat(9, 1)) THEN "critical"
  ELSE IF RGe(relativeDrop, Rat(20, 100)) \/ RGe(zScoreSq, Rat(4, 1)) THEN "significant"
  ELSE "warning"

\* classifySeverity(relativeDrop, zScore), zScore given by its square.
classifySeverity(relativeDrop, zScoreSq) ==
  IF RGt(relativeDrop, Rat(40, 100)) \/ RGt(zScoreSq, Rat(9, 1)) THEN "critical"
  ELSE IF RGt(relativeDrop, Rat(20, 100)) \/ RGt(zScoreSq, Rat(4, 1)) THEN "significant"
  ELSE "warning"

\* Math.abs(zScore) >= minZScore, zScore given by its square.
AbsZAtLeast(zScoreSq, minZScore) ==
  RLe(minZScore, Zero) \/ RGe(zScoreSq, RMul(minZScore, minZScore))

\* cr.rates.find(r => r.fromStage === fromStage && r.toStage === toStage)?.rate ?? 0
RateOfPair(cr, fromStage, toStage) ==
  LET hits == {k \in 1..Len(cr.rates) :
                 cr.rates[k].fromStage = fromStage /\ cr.rates[k].toStage = toStage}
  IN  IF hits = {} THEN Zero
      ELSE cr.rates[CHOOSE k \in hits : \A m \in hits : k <= m].rate

extractTimeSeries(funnelRates, fromStage, toStage) ==
  LET points == [k \in 1..Len(funnelRates) |->
                   [date |-> funnelRates[k].date,
                    rate |-> RateOfPair(funnelRates[k], fromStage, toStage)]]
  IN  SortByKey(points, CollationKeys([k \in 1..Len(points) |-> points[k].date]))

\* A current window that would take the points after the detection date too.
currentPointsWithLater(timeSeries, detectionDate, config) ==
  KeepIdx(timeSeries,
          {k \in 1..Len(timeSeries) :
             LET diff == daysDiff(timeSeries[k].date, detectionDate)
             IN  RLt(diff, Rat(config.currentWindowDays, 1))}, 1)

\* The points of the current and of the baseline window of a detection date.
currentPoints(timeSeries, detectionDate, config) ==
  KeepIdx(timeSeries,
          {k \in 1..Len(timeSeries) :
             LET diff == daysDiff(timeSeries[k].date, detectionDate)
             IN  RGe(diff, Zero) /\ RLt(diff, Rat(config.currentWindowDays, 1))}, 1)

\* A baseline window that starts at the detection date itself.
baselinePointsFromToday(timeSeries, detectionDate, config) ==
  KeepIdx(timeSeries,
          {k \in 1..Len(timeSeries) :
             LET diff == daysDiff(timeSeries[k].date, detectionDate)
             IN  /\ RGe(diff, Zero)
                 /\ RLt(diff, Rat(config.baselineWindowDays + config.currentWindowDays, 1))},
          1)

baselinePoints(timeSeries, detectionDate, config) ==
  KeepIdx(timeSeries,
          {k \in 1..Len(timeSeries) :
             LET diff == daysDiff(timeSeries[k].date, detectionDate)
             IN  /\ RGe(diff, Rat(config.currentWindowDays, 1))
                 /\ RLt(diff, Rat(config.baselineWindowDays + config.currentWindowDays, 1))},
          1)

\* A variant of the flag test that takes a rise for a drop.
FlaggedEitherWay(relativeDrop, zScoreSq, config) ==
  RGe(RAbs(relativeDrop), config.minRelativeDrop) /\ AbsZAtLeast(zScoreSq, config.minZScore)

\* A variant of the flag test that leaves the z-score test out.
FlaggedByDropOnly(relativeDrop, zScoreSq, config) ==
  RGe(relativeDrop, config.minRelativeDrop)

\* The flag test of one detection date.
Flagged(relativeDrop, zScoreSq, config) ==
  RGe(relativeDrop, config.minRelativeDrop) /\ AbsZAtLeast(zScoreSq, config.minZScore)

\* One pass of the loop of detectBreaksInSeries: the breaks (none or one) of the
\* detection date timeSeries[i].
BreaksAt(timeSeries, i, funnelId, fromStage, toStage, config) ==
  LET detectionDate == timeSeries[i].date
      cur  == currentPoints(timeSeries, detectionDate, config)
      base == baselinePoints(timeSeries, detectionDate, config)
      baselineRates == [k \in 1..Len(base) |-> base[k].rate]
      currentRates  == [k \in 1..Len(cur) |-> cur[k].rate]
      baselineMean  == mean(baselineRates)
      currentMean   == mean(currentRates)
      effectiveVar  == RMax(stddevSq(baselineRates), Rat(1, 10000))
      absoluteDrop  == RSub(baselineMean, currentMean)
      relativeDrop  == RDiv(absoluteDrop, baselineMean)
      zScoreSq      == RDiv(RMul(absoluteDrop, absoluteDrop), effectiveVar)
  IN  IF Len(base) < config.minBaselineDataPoints THEN <<>>
      ELSE IF Len(cur) = 0 THEN <<>>
      ELSE IF baselineMean = Zero THEN <<>>
      ELSE IF Flagged(relativeDrop, zScoreSq, config)
           THEN << [funnelId     |-> funnelId,
                    fromStage    |-> fromStage,
                    toStage      |-> toStage,
                    detectedDate |-> detectionDate,
                    baselineRate |-> baselineMean,
                    currentRate  |-> currentMean,
                    absoluteDrop |-> absoluteDrop,
                    relativeDrop |-> relativeDrop,
                    zScoreSq     |-> zScoreSq,
                    zSign        |-> Sign(absoluteDrop.n),
                    severity     |-> classifySeverity(relativeDrop, zScoreSq)] >>
           ELSE <<>>

RECURSIVE SeriesBreaksFrom(_, _, _, _, _, _)
SeriesBreaksFrom(timeSeries, i, funnelId, fromStage, toStage, config) ==
  IF i > Len(timeSeries) THEN <<>>
  ELSE BreaksAt(timeSeries, i, funnelId, fromStage, toStage, config)
       \o SeriesBreaksFrom(timeSeries, i + 1, funnelId, fromStage, toStage, config)

detectBreaksInSeries(timeSeries, funnelId, fromStage, toStage, config) ==
  SeriesBreaksFrom(timeSeries, 1, funnelId, fromStage, toStage, config)

\* Break in cluster with largest |zScore| (the first of them).
RECURSIVE PeakFrom(_, _)
PeakFrom(best, rest) ==
  IF rest = <<>> THEN best
  ELSE PeakFrom(IF RGt(Head(rest).zScoreSq, best.zScoreSq) THEN Head(rest) ELSE best,
                Tail(rest))

\* A variant that reports a cluster's first member whatever its z-score.
pickFirstBreak(cluster) == Head(cluster)

pickPeakBreak(cluster) == PeakFrom(Head(cluster), Tail(cluster))

\* `${brk.funnelId}|${brk.fromStage}|${brk.toStage}`
BreakKey(brk) == brk.funnelId \o <<"|", brk.fromStage, "|", brk.toStage>>

\* The keys of a list of breaks in the order of their first occurrence (the
\* insertion order of the Map).
RECURSIVE KeysInOrder(_, _)
KeysInOrder(keys, seen) ==
  IF keys = <<>> THEN <<>>
  ELSE IF Head(keys) \in seen THEN KeysInOrder(Tail(keys), seen)
  ELSE <<Head(keys)>> \o KeysInOrder(Tail(keys), seen \cup {Head(keys)})

\* The gap test that keeps curr in the cluster of prev.
SameCluster(prev, curr) == RLe(daysDiff(prev.detectedDate, curr.detectedDate), Rat(1, 1))

\* The cluster loop over one group sorted by date: the peaks of its clusters.
RECURSIVE ClusterFrom(_, _, _)
ClusterFrom(groupBreaks, i, cluster) ==
  IF i > Len(groupBreaks) THEN <<pickPeakBreak(cluster)>>
  ELSE IF SameCluster(groupBreaks[i - 1], groupBreaks[i])
       THEN ClusterFrom(groupBreaks, i + 1, Append(cluster, groupBreaks[i]))
       ELSE <<pickPeakBreak(cluster)>> \o ClusterFrom(groupBreaks, i + 1, <<groupBreaks[i]>>)

\* No sort: the list as it is.
KeepOrder(brks) == brks

SortByDetectedDate(brks) ==
  SortByKey(brks, CollationKeys([k \in 1..Len(brks) |-> brks[k].detectedDate]))

DedupGroup(brks, key) ==
  LET members == KeepIdx(brks, {k \in 1..Len(brks) : BreakKey(brks[k]) = key}, 1)
      groupBreaks == SortByDetectedDate(members)
  IN  ClusterFrom(groupBreaks, 2, <<groupBreaks[1]>>)

RECURSIVE DedupGroups(_, _)
DedupGroups(brks, keys) ==
  IF keys = <<>> THEN <<>>
  ELSE DedupGroup(brks, Head(keys)) \o DedupGroups(brks, Tail(keys))

deduplicateConsecutiveBreaks(brks) ==
  IF Len(brks) = 0 THEN <<>>
  ELSE LET keys == KeysInOrder([k \in 1..Len(brks) |-> BreakKey(brks[k])], {})
       IN  SortByDetectedDate(DedupGroups(brks, keys))

\* The breaks of one funnel: its records sorted by date, then every stage pair.
RECURSIVE FunnelBreaksFrom(_, _, _, _)
FunnelBreaksFrom(funnelRates, funnelId, i, config) ==
  IF i > Len(STAGE_ORDER) - 1 THEN <<>>
  ELSE LET fromStage == STAGE_ORDER[i]
           toStage == STAGE_ORDER[i + 1]
           timeSeries == extractTimeSeries(funnelRates, fromStage, toStage)
       IN  detectBreaksInSeries(timeSeries, funnelId, fromStage, toStage, config)
           \o FunnelBreaksFrom(funnelRates, funnelId, i + 1, config)

\* A variant that takes the records of every funnel.
FunnelRatesAll(crs, funnelId) ==
  SortByKey(crs, CollationKeys([k \in 1..Len(crs) |-> crs[k].date]))

FunnelRates(crs, funnelId) ==
  LET mine == KeepIdx(crs, {k \in 1..Len(crs) : crs[k].funnelId = funnelId}, 1)
  IN  SortByKey(mine, CollationKeys([k \in 1..Len(mine) |-> mine[k].date]))

RECURSIVE AllBreaksFrom(_, _, _)
AllBreaksFrom(crs, funnelIds, config) ==
  IF funnelIds = <<>> THEN <<>>
  ELSE FunnelBreaksFrom(FunnelRates(crs, Head(funnelIds)), Head(funnelIds), 1, config)
       \o AllBreaksFrom(crs, Tail(funnelIds), config)

\* allBreaks of detectBreaks: the raw flags, before the deduplication.
rawBreaks(crs, config) ==
  AllBreaksFrom(crs, KeysInOrder([k \in 1..Len(crs) |-> crs[k].funnelId], {}), config)

detectBreaks(crs, config) == deduplicateConsecutiveBreaks(rawBreaks(crs, config))

(***************************************************************************)
(* Cause Analyzer.  Scores are kept in millionths and weights in           *)
(* hundredths, so a confidence is a whole number of 1e-8: every product    *)
(* and sum of the tabulated values is exact, and Math.exp is read from a   *)
(* table rounded to six decimals.                                          *)
(***************************************************************************)
Millionths(n, d) == (n * 1000000) \div d

\* Math.exp(-0.5 * gap) for a whole gap of 0..8 days, in millionths.
ExpNegHalf(gap) ==
  CASE gap = 0 -> 1000000
    [] gap = 1 -> 606531
    [] gap = 2 -> 367879
    [] gap = 3 -> 223130
    [] gap = 4 -> 135335
    [] gap = 5 -> 82085
    [] gap = 6 -> 49787
    [] gap = 7 -> 30197
    [] gap = 8 -> 18316

ChangeCategory == {"ad", "site", "external", "tracking", "pricing", "audience"}

\* CATEGORY_STAGE_RELEVANCE, in hundredths, by the index of the from-stage of
\* "impression->click", "click->landing", "landing->lead", "lead->purchase".
CATEGORY_STAGE_RELEVANCE(category) ==
  CASE category = "ad"       -> <<95, 60, 20, 10>>
    [] category = "site"     -> <<5, 90, 85, 70>>
    [] category = "external" -> <<50, 30, 40, 60>>
    [] category = "tracking" -> <<80, 80, 60, 40>>
    [] category = "pricing"  -> <<5, 10, 50, 95>>
    [] category = "audience" -> <<85, 70, 50, 30>>

\* The absent value of an optional list.
Undefined == <<"undefined">>

\* A score that falls linearly from 1 at gap 0 to 0 at maxDays.
calcTemporalScoreLinear(changeDate, breakDate, maxDays) ==
  LET gap == daysDiff(changeDate, breakDate)
  IN  IF RLt(gap, Zero) \/ RGt(gap, Rat(maxDays, 1)) THEN 0
      ELSE Millionths(maxDays - gap.n, maxDays)

calcTemporalScore(changeDate, breakDate, maxDays) ==
  LET gap == daysDiff(changeDate, breakDate)
  IN  IF RLt(gap, Zero) \/ RGt(gap, Rat(maxDays, 1)) THEN 0
      ELSE ExpNegHalf(gap.n)

\* A lookup whose key never matches: always the default.
calcCategoryRelevanceDefault(category, fromStage, toStage) == Millionths(3, 10)

\* CATEGORY_STAGE_RELEVANCE[category]?.[`${fromStage}->${toStage}`] ?? 0.3
calcCategoryRelevance(category, fromStage, toStage) ==
  LET hits == {i \in StagePairs :
                 STAGE_ORDER[i] = fromStage /\ STAGE_ORDER[i + 1] = toStage}
  IN  IF category \in ChangeCategory /\ hits # {}
      THEN Millionths(CATEGORY_STAGE_RELEVANCE(category)[CHOOSE i \in hits : TRUE], 100)
      ELSE Millionths(3, 10)

Min(a, b) == IF a < b THEN a ELSE b
Max(a, b) == IF a > b THEN a ELSE b

\* The score without the clamp.
calcSeverityScoreUnclamped(severity) == Millionths(severity - 1, 4)

calcSeverityScore(severity) == Millionths(Min(5, Max(1, severity)) - 1, 4)

\* A bonus for the break's toStage alone.
calcStageMatchBonusToStage(change, brk) ==
  IF change.affectedStages = Undefined \/ Len(change.affectedStages) = 0 THEN 0
  ELSE IF \E k \in 1..Len(change.affectedStages) :
            change.affectedStages[k] = brk.toStage
       THEN Millionths(2, 10)
       ELSE 0

calcStageMatchBonus(change, brk) ==
  IF change.affectedStages = Undefined \/ Len(change.affectedStages) = 0 THEN 0
  ELSE IF \E k \in 1..Len(change.affectedStages) :
            \/ change.affectedStages[k] = brk.fromStage
            \/ change.affectedStages[k] = brk.toStage
       THEN Millionths(2, 10)
       ELSE 0

\* A score whose confidence is the weighted sum itself, not clamped.
scoreCandidateUnclamped(change, brk, config) ==
  LET temporalScore == calcTemporalScore(change.date, brk.detectedDate,
                                         config.maxTemporalDistanceDays)
      categoryRelevanceScore ==
        calcCategoryRelevance(change.category, brk.fromStage, brk.toStage)
      severityScore == calcSeverityScore(change.severity)
      stageMatchBonus == calcStageMatchBonus(change, brk)
  IN  [changeId          |-> <<>>,
       changeDescription |-> change.description,
       changeCategory    |-> change.category,
       changeDate        |-> change.date,
       changeSeverity    |-> change.severity,
       confidence        |-> temporalScore * config.temporalWeight
                             + categoryRelevanceScore * config.categoryWeight
                             + severityScore * config.severityWeight
                             + stageMatchBonus * config.stageMatchWeight,
       scoreBreakdown    |-> [temporalScore          |-> temporalScore,
                              categoryRelevanceScore |-> categoryRelevanceScore,
                              severityScore          |-> severityScore,
                              stageMatchBonus        |-> stageMatchBonus]]

scoreCandidate(change, brk, config) ==
  LET temporalScore == calcTemporalScore(change.date, brk.detectedDate,
                                         config.maxTemporalDistanceDays)
      categoryRelevanceScore ==
        calcCategoryRelevance(change.category, brk.fromStage, brk.toStage)
      severityScore == calcSeverityScore(change.severity)
      stageMatchBonus == calcStageMatchBonus(change, brk)
      confidence ==
        Min(100000000, Max(0,
          temporalScore * config.temporalWeight
          + categoryRelevanceScore * config.categoryWeight
          + severityScore * config.severityWeight
          + stageMatchBonus * config.stageMatchWeight))
  IN  [changeId          |-> <<>>,
       changeDescription |-> change.description,
       changeCategory    |-> change.category,
       changeDate        |-> change.date,
       changeSeverity    |-> change.severity,
       confidence        |-> confidence,
       scoreBreakdown    |-> [temporalScore          |-> temporalScore,
                              categoryRelevanceScore |-> categoryRelevanceScore,
                              severityScore          |-> severityScore,
                              stageMatchBonus        |-> stageMatchBonus]]

\* The filter without its date test.
IsCandidateAnyDate(change, brk, config) ==
  change.funnelId = brk.funnelId \/ change.funnelId = <<"*">>

\* The filter without the wildcard.
IsCandidateOwnFunnel(change, brk, config) ==
  LET gap == daysDiff(change.date, brk.detectedDate)
  IN  /\ change.funnelId = brk.funnelId
      /\ RGe(gap, Zero) /\ RLe(gap, Rat(config.maxTemporalDistanceDays, 1))

\* The eligibility filter of diagnoseBreak.
IsCandidate(change, brk, config) ==
  LET funnelMatch == change.funnelId = brk.funnelId \/ change.funnelId = <<"*">>
      gap == daysDiff(change.date, brk.detectedDate)
  IN  IF ~funnelMatch THEN FALSE
      ELSE RGe(gap, Zero) /\ RLe(gap, Rat(config.maxTemporalDistanceDays, 1))

\* The confidence a cause must reach to be kept, in 1e-8.
KeepsCause(cause, config) ==
  cause.confidence >= config.minConfidenceThreshold * 1000000

\* A descending sort that puts the later of two equal causes first.
SortByConfidenceTiesReversed(causes) ==
  SortByKey(Reverse(causes),
            [i \in 1..Len(causes) |->
               Cardinality({j \in 1..Len(causes) :
                              causes[j].confidence > causes[Len(causes) + 1 - i].confidence})])

\* .sort((a, b) => b.confidence - a.confidence)
SortByConfidence(causes) ==
  SortByKey(causes,
            [i \in 1..Len(causes) |->
               Cardinality({j \in 1..Len(causes) :
                              causes[j].confidence > causes[i].confidence})])

\* IDENTIFIED only above 0.6.
determineStatusStrict(causes) ==
  IF Len(causes) = 0 THEN "unknown"
  ELSE IF causes[1].confidence > 60000000 THEN "identified"
  ELSE "uncertain"

determineStatus(causes) ==
  IF Len(causes) = 0 THEN "unknown"
  ELSE IF causes[1].confidence >= 60000000 THEN "identified"
  ELSE "uncertain"

\* The summary's parts: the header's fields and which ending it takes (the
\* percentages it prints are left out).
generateSummary(brk, causes, status) ==
  [severity |-> brk.severity, funnelId |-> brk.funnelId,
   fromStage |-> brk.fromStage, toStage |-> brk.toStage,
   detectedDate |-> brk.detectedDate,
   ending |-> IF status = "unknown" THEN "No candidate causes found"
              ELSE IF status = "identified" THEN "Most likely cause"
              ELSE "Possible cause",
   topCause |-> IF status = "unknown" THEN <<>> ELSE causes[1].changeDescription]

diagnoseBreak(brk, allChanges, config) ==
  LET candidateChanges ==
        KeepIdx(allChanges,
                {k \in 1..Len(allChanges) : IsCandidate(allChanges[k], brk, config)}, 1)
      scored == [k \in 1..Len(candidateChanges) |->
                   scoreCandidate(candidateChanges[k], brk, config)]
      kept == KeepIdx(scored, {k \in 1..Len(scored) : KeepsCause(scored[k], config)}, 1)
      causes == SortByConfidence(kept)
      diagnosisStatus == determineStatus(causes)
  IN  [generatedAt     |-> "now",
       break           |-> brk,
       causes          |-> causes,
       diagnosisStatus |-> diagnosisStatus,
       summary         |-> generateSummary(brk, causes, diagnosisStatus)]

analyzeCauses(brks, chgs, config) ==
  [k \in 1..Len(brks) |-> diagnoseBreak(brks[k], chgs, config)]

(***************************************************************************)
(* CSV loaders.  Here a text is the sequence of its characters; a row is   *)
(* a record of csv-parse (columns: true, trim: true), a text per column.   *)
(***************************************************************************)
Digits == <<"0", "1", "2", "3", "4", "5", "6", "7", "8", "9">>

IsDigit(c) == \E k \in 1..Len(Digits) : Digits[k] = c

DigitVal(c) == (CHOOSE k \in 1..Len(Digits) : Digits[k] = c) - 1

\* /^\d{4}-\d{2}-\d{2}$/.test(text)
MatchesDateFormat(text) ==
  /\ Len(text) = 10
  /\ text[5] = "-" /\ text[8] = "-"
  /\ \A i \in {1, 2, 3, 4, 6, 7, 9, 10} : IsDigit(text[i])

\* String.prototype.toLowerCase, on the letters the rows use.
LowerOf(c) ==
  CASE c = "C" -> "c" [] c = "L" -> "l" [] c = "I" -> "i" [] c = "K" -> "k"
    [] c = "S" -> "s" [] c = "T" -> "t" [] c = "E" -> "e" [] OTHER -> c

toLowerCase(text) == [i \in 1..Len(text) |-> LowerOf(text[i])]

\* The value of the digits text[from..to].
RECURSIVE DigitsValue(_, _, _)
DigitsValue(text, from, to) ==
  IF to < from THEN 0 ELSE 10 * DigitsValue(text, from, to - 1) + DigitVal(text[to])

\* parseInt(text, 10): an optional sign and the longest run of digits after it,
\* whatever follows; NaN without a digit there.
parseInt(text) ==
  LET signed == text # <<>> /\ text[1] \in {"-", "+"}
      from == IF signed THEN 2 ELSE 1
      ends == {e \in (from - 1)..Len(text) : \A i \in from..e : IsDigit(text[i])}
      to == CHOOSE e \in ends : \A f \in ends : f <= e
  IN  IF to < from THEN Rat(0, 0)
      ELSE Rat((IF signed /\ text[1] = "-" THEN -1 ELSE 1) * DigitsValue(text, from, to), 1)

\* String.prototype.trim
RECURSIVE trim(_)
trim(text) ==
  IF text # <<>> /\ Head(text) = " " THEN trim(Tail(text))
  ELSE IF text # <<>> /\ text[Len(text)] = " " THEN trim(SubSeq(text, 1, Len(text) - 1))
  ELSE text

\* The characters of the values of FunnelStage and of ChangeCategory.
StageText(stage) ==
  CASE stage = "impression" -> <<"i", "m", "p", "r", "e", "s", "s", "i", "o", "n">>
    [] stage = "click"      -> <<"c", "l", "i", "c", "k">>
    [] stage = "landing"    -> <<"l", "a", "n", "d", "i", "n", "g">>
    [] stage = "lead"       -> <<"l", "e", "a", "d">>
    [] stage = "purchase"   -> <<"p", "u", "r", "c", "h", "a", "s", "e">>

CategoryText(category) ==
  CASE category = "ad"       -> <<"a", "d">>
    [] category = "site"     -> <<"s", "i", "t", "e">>
    [] category = "external" -> <<"e", "x", "t", "e", "r", "n", "a", "l">>
    [] category = "tracking" -> <<"t", "r", "a", "c", "k", "i", "n", "g">>
    [] category = "pricing"  -> <<"p", "r", "i", "c", "i", "n", "g">>
    [] category = "audience" -> <<"a", "u", "d", "i", "e", "n", "c", "e">>

\* VALID_STAGES.has(text), VALID_CATEGORIES.has(text)
VALID_STAGES(text) == \E stage \in FunnelStage : StageText(stage) = text

VALID_CATEGORIES(text) == \E category \in ChangeCategory : CategoryText(category) = text

\* if (!row.x): the column is absent or empty.
Falsy(text) == text = Undefined \/ text = <<>>

\* The message of the error a row of the events file is dropped with, "" for
\* an accepted row.
EventRowError(row) ==
  IF Falsy(row.date) \/ Falsy(row.funnel_id) \/ Falsy(row.stage) \/ row.count = Undefined
  THEN "Missing required field(s)"
  ELSE IF ~MatchesDateFormat(row.date) THEN "Invalid date format"
  ELSE IF ~VALID_STAGES(toLowerCase(row.stage)) THEN "Invalid stage"
  ELSE IF IsNaN(parseInt(row.count)) \/ RLt(parseInt(row.count), Zero) THEN "Invalid count"
  ELSE ""

\* The event pushed for an accepted row.
EventOfRow(row) ==
  [date     |-> row.date,
   funnelId |-> row.funnel_id,
   stage    |-> CHOOSE stage \in FunnelStage : StageText(stage) = toLowerCase(row.stage),
   count    |-> parseInt(row.count).n,
   source   |-> IF Falsy(row.source) THEN Undefined ELSE row.source]

\* errors.push({ line: lineNum, message }) with lineNum = i + 2 for the 0-based
\* i; k is 1-based.
LoaderError(k, message) == [line |-> k + 1, message |-> message]

\* A loader that would stop at the first rejected row.
loadEventsFromCsvStopAtError(records) ==
  LET rejected == {k \in 1..Len(records) : EventRowError(records[k]) # ""}
      stop == IF rejected = {} THEN Len(records) + 1
              ELSE CHOOSE k \in rejected : \A j \in rejected : k <= j
  IN  [events |-> [k \in 1..(stop - 1) |-> EventOfRow(records[k])],
       errors |-> IF rejected = {} THEN <<>>
                  ELSE << LoaderError(stop, EventRowError(records[stop])) >>]

loadEventsFromCsv(records) ==
  LET accepted == {k \in 1..Len(records) : EventRowError(records[k]) = ""}
  IN  [events |-> KeepIdx([k \in 1..Len(records) |->
                             IF k \in accepted THEN EventOfRow(records[k]) ELSE <<>>],
                          accepted, 1),
       errors |-> KeepIdx([k \in 1..Len(records) |->
                             LoaderError(k, EventRowError(records[k]))],
                          (1..Len(records)) \ accepted, 1)]

\* row.affected_stages.split(";").map((s) => s.trim()).filter(Boolean)
AffectedStagesOf(text) ==
  LET parts == Split(text, ";")
      trimmed == [i \in 1..Len(parts) |-> trim(parts[i])]
  IN  KeepIdx(trimmed, {i \in 1..Len(trimmed) : trimmed[i] # <<>>}, 1)

ChangeRowError(row) ==
  IF \/ Falsy(row.date) \/ Falsy(row.funnel_id) \/ Falsy(row.category)
     \/ Falsy(row.description) \/ row.severity = Undefined
  THEN "Missing required field(s)"
  ELSE IF ~MatchesDateFormat(row.date) THEN "Invalid date format"
  ELSE IF ~VALID_CATEGORIES(toLowerCase(row.category)) THEN "Invalid category"
  ELSE IF \/ IsNaN(parseInt(row.severity))
          \/ RLt(parseInt(row.severity), Rat(1, 1))
          \/ RGt(parseInt(row.severity), Rat(5, 1))
       THEN "Invalid severity (must be 1-5)"
  ELSE ""

ChangeOfRow(row) ==
  [date           |-> row.date,
   funnelId       |-> row.funnel_id,
   category       |-> CHOOSE category \in ChangeCategory :
                        CategoryText(category) = toLowerCase(row.category),
   description    |-> row.description,
   severity       |-> parseInt(row.severity).n,
   affectedStages |-> IF Falsy(row.affected_stages) THEN Undefined
                      ELSE AffectedStagesOf(row.affected_stages)]

loadChangesFromCsv(records) ==
  LET accepted == {k \in 1..Len(records) : ChangeRowError(records[k]) = ""}
  IN  [changes |-> KeepIdx([k \in 1..Len(records) |->
                              IF k \in accepted THEN ChangeOfRow(records[k]) ELSE <<>>],
                           accepted, 1),
       errors  |-> KeepIdx([k \in 1..Len(records) |->
                              LoaderError(k, ChangeRowError(records[k]))],
                           (1..Len(records)) \ accepted, 1)]

(***************************************************************************)
(* Storage.  The events table is the sequence of its rows in rowid order.  *)
(***************************************************************************)
\* String(n), the decimal text of a number n >= 0.
RECURSIVE NumberText(_)
NumberText(n) ==
  IF n < 10 THEN << Digits[n + 1] >> ELSE NumberText(n \div 10) \o << Digits[(n % 10) + 1] >>

\* initializeDatabase(":memory:"): no row, no rowid given yet.
EmptyDatabase == [events |-> <<>>, seq |-> 0]

\* UNIQUE(date, funnel_id, stage, source)
RowKey(row) == << row.date, row.funnel_id, row.stage, row.source >>

\* CHECK(stage IN (...)) and CHECK(count >= 0)
ChecksHold(evt) == evt.stage \in FunnelStage /\ evt.count >= 0

\* The row insertStmt.run binds for an event: source ?? "".
RowOfEvent(evt, id) ==
  [id |-> id, date |-> evt.date, funnel_id |-> evt.funnelId, stage |-> evt.stage,
   count |-> evt.count, source |-> IF evt.source = Undefined THEN <<>> ELSE evt.source]

\* An INSERT that would keep the row already there (INSERT OR IGNORE).
InsertOrIgnore(d, evt) ==
  LET row == RowOfEvent(evt, d.seq + 1)
  IN  IF \E i \in 1..Len(d.events) : RowKey(d.events[i]) = RowKey(row) THEN d
      ELSE [events |-> Append(d.events, row), seq |-> d.seq + 1]

\* INSERT OR REPLACE: the row of the same key is deleted and the new row gets
\* the next rowid (AUTOINCREMENT).
InsertOrReplace(d, evt) ==
  LET row == RowOfEvent(evt, d.seq + 1)
      kept == {i \in 1..Len(d.events) : RowKey(d.events[i]) # RowKey(row)}
  IN  [events |-> Append(KeepIdx(d.events, kept, 1), row), seq |-> d.seq + 1]

RECURSIVE InsertAll(_, _)
InsertAll(d, evts) ==
  IF evts = <<>> THEN d ELSE InsertAll(InsertOrReplace(d, Head(evts)), Tail(evts))

\* insertMany(events): one transaction; a row that fails a CHECK throws and the
\* transaction is rolled back.
insertMany(d, evts) ==
  IF \A i \in 1..Len(evts) : ChecksHold(evts[i]) THEN InsertAll(d, evts) ELSE d

\* mapRows
mapRows(tableRows) ==
  [i \in 1..Len(tableRows) |->
     [id |-> NumberText(tableRows[i].id), date |-> tableRows[i].date,
      funnelId |-> tableRows[i].funnel_id, stage |-> tableRows[i].stage,
      count |-> tableRows[i].count,
      source |-> IF tableRows[i].source = <<>> THEN Undefined ELSE tableRows[i].source]]

\* ORDER BY date, stage: the texts in binary order.
SqlStageRank(stage) ==
  CASE stage = "click" -> 1 [] stage = "impression" -> 2 [] stage = "landing" -> 3
    [] stage = "lead" -> 4 [] stage = "purchase" -> 5

OrderedByDateStage(a, b) ==
  \/ DayNum(a.date) < DayNum(b.date)
  \/ a.date = b.date /\ SqlStageRank(a.stage) <= SqlStageRank(b.stage)

\* The results findByFunnel(funnelId) may return: the rows of the funnel in an
\* order by date and stage (SQL leaves the order of rows equal in both open).
findByFunnel(d, funnelId) ==
  LET matching == {i \in 1..Len(d.events) : d.events[i].funnel_id = funnelId}
      n == Cardinality(matching)
      orders == {o \in [1..n -> matching] :
                   /\ \A i, j \in 1..n : o[i] = o[j] => i = j
                   /\ \A i, j \in 1..n :
                        i < j => OrderedByDateStage(d.events[o[i]], d.events[o[j]])}
  IN  {mapRows([i \in 1..n |-> d.events[o[i]]]) : o \in orders}

(***************************************************************************)
(* Inputs of the funnel analyzer.                                          *)
(***************************************************************************)
EventFunnelIds == {<<"a">>, <<"b">>, <<"a", "|", "01">>}
EventDates == {<<"01">>, <<"02">>}
EventStages == {"impression", "click", "landing"}
EventCounts == {1, 2}
EventSources == {"meta"}

Events == [date : EventDates, funnelId : EventFunnelIds, stage : EventStages,
           count : EventCounts, source : EventSources]

DefaultDetectorConfig ==
  [baselineWindowDays |-> 14, currentWindowDays |-> 3,
   minRelativeDrop |-> Rat(15, 100), minZScore |-> Rat(15, 10),
   minBaselineDataPoints |-> 7]

DefaultAnalyzerConfig ==
  [maxTemporalDistanceDays |-> 7, temporalWeight |-> 40, categoryWeight |-> 30,
   severityWeight |-> 20, stageMatchWeight |-> 10, minConfidenceThreshold |-> 10]

(***************************************************************************)
(* The funnel analyzer's calls: buildSnapshots(events), then               *)
(* calculateConversionRates on its result.                                 *)
(***************************************************************************)
InitFunnel ==
  /\ pc = "buildSnapshots"
  /\ events \in SeqsUpTo(Events, MaxEvents)
  /\ snapshots = <<>>
  /\ conversionRates = <<>>
  /\ detectorConfig = DefaultDetectorConfig
  /\ allBreaks = <<>>
  /\ breaks = <<>>
  /\ changes = <<>>
  /\ analyzerConfig = DefaultAnalyzerConfig
  /\ diagnoses = <<>>
  /\ rows = <<>>
  /\ loadErrors = <<>>
  /\ metadata = <<>>
  /\ argv = <<>>
  /\ exitCode = <<>>
  /\ db = EmptyDatabase

BuildSnapshots ==
  /\ pc = "buildSnapshots"
  /\ snapshots' = buildSnapshots(events)
  /\ pc' = "calculateConversionRates"
  /\ UNCHANGED <<events, conversionRates, detectorConfig, allBreaks, breaks, changes,
                 analyzerConfig, diagnoses>>
  /\ UNCHANGED <<loaderVars, metadata, db, cliVars>>

CalculateConversionRates ==
  /\ pc = "calculateConversionRates"
  /\ conversionRates' = calculateConversionRates(snapshots)
  /\ pc' = "rates"
  /\ UNCHANGED <<events, snapshots, detectorConfig, allBreaks, breaks, changes,
                 analyzerConfig, diagnoses>>
  /\ UNCHANGED <<loaderVars, metadata, db, cliVars>>

NextFunnel == BuildSnapshots \/ CalculateConversionRates

SpecFunnel == InitFunnel /\ [][NextFunnel]_vars

(***************************************************************************)
(* Inputs of the break detector: a caller's ConversionRates[] of two       *)
(* funnels over the days 1..MaxDay, and a configuration.                   *)
(***************************************************************************)
Days == 1..MaxDay

DateOfDay(d) == <<DateTok[d]>>

\* The rates a day's record may carry for impression->click.
SampleRates == <<Rat(0, 1), Rat(1, 4), Rat(1, 2), Rat(3, 4)>>

RateEntry(i, rate) ==
  [fromStage |-> STAGE_ORDER[i], toStage |-> STAGE_ORDER[i + 1], rate |-> rate,
   fromCount |-> rate.d, toCount |-> rate.n]

\* A record whose impression->click rate is r, click->landing rate 1 - r, and
\* whose later stages are empty.
RatesRecord(funnelId, d, r) ==
  [date |-> DateOfDay(d), funnelId |-> funnelId,
   rates |-> <<RateEntry(1, r), RateEntry(2, RSub(Rat(1, 1), r)),
               RateEntry(3, Zero), RateEntry(4, Zero)>>]

RECURSIVE RecordsOfSeries(_, _, _)
RecordsOfSeries(funnelId, series, d) ==
  IF d > MaxDay THEN <<>>
  ELSE (IF series[d] = 0 THEN <<>>
        ELSE <<RatesRecord(funnelId, d, SampleRates[series[d]])>>)
       \o RecordsOfSeries(funnelId, series, d + 1)

\* Funnel b: no record, or 3/4 on the day before dropDay and 1/4 on dropDay.
DropSeries(dropDay) ==
  [d \in Days |-> IF dropDay = 0 THEN 0
                  ELSE IF d = dropDay - 1 THEN 4
                  ELSE IF d = dropDay THEN 2 ELSE 0]

SecondFunnelDrops == {0, 2}

RatesInput(seriesA, dropB, order) ==
  LET forward == RecordsOfSeries(<<"a">>, seriesA, 1)
                 \o RecordsOfSeries(<<"b">>, DropSeries(dropB), 1)
  IN  IF order = "reverse" THEN Reverse(forward) ELSE forward

DetectorConfigs ==
  { [baselineWindowDays |-> 2, currentWindowDays |-> 1,
     minRelativeDrop |-> Rat(15, 100), minZScore |-> Rat(15, 10),
     minBaselineDataPoints |-> 1],
    [baselineWindowDays |-> 2, currentWindowDays |-> 2,
     minRelativeDrop |-> Rat(15, 100), minZScore |-> Rat(1, 2),
     minBaselineDataPoints |-> 2],
    [baselineWindowDays |-> 1, currentWindowDays |-> 1,
     minRelativeDrop |-> Zero, minZScore |-> Zero,
     minBaselineDataPoints |-> 1] }

(***************************************************************************)
(* The break detector's call: detectBreaks(conversionRates, config).       *)
(***************************************************************************)
InitDetect ==
  /\ pc = "detectBreaks"
  /\ events = <<>>
  /\ snapshots = <<>>
  /\ \E seriesA \in [Days -> 0..Len(SampleRates)], dropB \in SecondFunnelDrops,
        order \in {"forward", "reverse"} :
        /\ dropB = 0 => order = "forward"
        /\ conversionRates = RatesInput(seriesA, dropB, order)
  /\ detectorConfig \in DetectorConfigs
  /\ allBreaks = <<>>
  /\ breaks = <<>>
  /\ changes = <<>>
  /\ analyzerConfig = DefaultAnalyzerConfig
  /\ diagnoses = <<>>
  /\ rows = <<>>
  /\ loadErrors = <<>>
  /\ metadata = <<>>
  /\ argv = <<>>
  /\ exitCode = <<>>
  /\ db = EmptyDatabase

\* A call that sorts the caller's array in place.
InputSortedInPlace(crs) ==
  SortByKey(crs, CollationKeys([k \in 1..Len(crs) |-> crs[k].date]))

\* The caller's array after the call: filter and map copy it before any sort.
InputAfterDetect(crs) == crs

DetectBreaks ==
  /\ pc = "detectBreaks"
  /\ allBreaks' = rawBreaks(conversionRates, detectorConfig)
  /\ breaks' = deduplicateConsecutiveBreaks(allBreaks')
  /\ conversionRates' = InputAfterDetect(conversionRates)
  /\ pc' = "breaks"
  /\ UNCHANGED <<events, snapshots, detectorConfig, changes, analyzerConfig, diagnoses>>
  /\ UNCHANGED <<loaderVars, metadata, db, cliVars>>

NextDetect == DetectBreaks

SpecDetect == InitDetect /\ [][NextDetect]_vars

(***************************************************************************)
(* The cause analyzer's call: analyzeCauses(breaks, changes, config).      *)
(***************************************************************************)
MaxChanges == 2

\* A break as the caller hands it over.
makeBreak(funnelId, i, day) ==
  [funnelId     |-> funnelId,
   fromStage    |-> STAGE_ORDER[i],
   toStage      |-> STAGE_ORDER[i + 1],
   detectedDate |-> DateOfDay(day),
   baselineRate |-> Rat(3, 4),
   currentRate  |-> Rat(9, 20),
   absoluteDrop |-> Rat(3, 10),
   relativeDrop |-> Rat(2, 5),
   zScoreSq     |-> Rat(49, 4),
   zSign        |-> 1,
   severity     |-> "critical"]

BreakInputs ==
  { << makeBreak(<<"a">>, 3, 4) >>,
    << makeBreak(<<"a">>, 2, 4), makeBreak(<<"b">>, 3, 3) >> }

ChangeFunnelIds == {<<"a">>, <<"b">>, <<"*">>}
ChangeDates == {DateOfDay(1), DateOfDay(2), DateOfDay(4), DateOfDay(5)}
ChangeKinds ==
  { [category |-> "pricing",  severity |-> 2, affectedStages |-> Undefined],
    [category |-> "audience", severity |-> 2, affectedStages |-> <<>>],
    [category |-> "site",     severity |-> 5, affectedStages |-> <<"landing">>] }
ChangeOptions == [date : ChangeDates, funnelId : ChangeFunnelIds, kind : ChangeKinds]

\* The k-th change of the list carries the k-th description.
ChangeTags == <<"c1", "c2", "c3", "c4">>

makeChange(o, k) ==
  [date           |-> o.date,
   funnelId       |-> o.funnelId,
   category       |-> o.kind.category,
   description    |-> <<ChangeTags[k]>>,
   severity       |-> o.kind.severity,
   affectedStages |-> o.kind.affectedStages]

ChangeLists ==
  {[k \in 1..Len(os) |-> makeChange(os[k], k)] : os \in SeqsUpTo(ChangeOptions, MaxChanges)}

AnalyzerConfigs ==
  { [maxTemporalDistanceDays |-> 2, temporalWeight |-> 40, categoryWeight |-> 30,
     severityWeight |-> 20, stageMatchWeight |-> 10, minConfidenceThreshold |-> 10],
    [maxTemporalDistanceDays |-> 1, temporalWeight |-> 60, categoryWeight |-> 0,
     severityWeight |-> 0, stageMatchWeight |-> 0, minConfidenceThreshold |-> 50] }

InitCause ==
  /\ pc = "analyzeCauses"
  /\ events = <<>>
  /\ snapshots = <<>>
  /\ conversionRates = <<>>
  /\ detectorConfig = DefaultDetectorConfig
  /\ allBreaks = <<>>
  /\ breaks \in BreakInputs
  /\ changes \in ChangeLists
  /\ analyzerConfig \in AnalyzerConfigs
  /\ diagnoses = <<>>
  /\ rows = <<>>
  /\ loadErrors = <<>>
  /\ metadata = <<>>
  /\ argv = <<>>
  /\ exitCode = <<>>
  /\ db = EmptyDatabase

AnalyzeCauses ==
  /\ pc = "analyzeCauses"
  /\ diagnoses' = analyzeCauses(breaks, changes, analyzerConfig)
  /\ pc' = "diagnoses"
  /\ UNCHANGED <<events, snapshots, conversionRates, detectorConfig, allBreaks,
                 breaks, changes, analyzerConfig>>
  /\ UNCHANGED <<loaderVars, metadata, db, cliVars>>

NextCause == AnalyzeCauses

SpecCause == InitCause /\ [][NextCause]_vars

(***************************************************************************)
(* analyzeCauses on one click->landing break and two changes of its funnel *)
(* that differ in at most one of date, severity and affectedStages.        *)
(***************************************************************************)
ScoredBreak == makeBreak(<<"a">>, 2, 8)

ScoreDates == {DateOfDay(8), DateOfDay(7), DateOfDay(5), DateOfDay(1)}
ScoreSeverities == {0, 1, 3, 5, 7}
ScoreAffectedStages ==
  {Undefined, <<>>, <<"impression">>, <<"landing", "lead">>, <<"impression", "click">>}
ScoreOptions ==
  [date : ScoreDates, severity : ScoreSeverities, affectedStages : ScoreAffectedStages]

ScoreChange(o, k) ==
  [date |-> o.date, funnelId |-> <<"a">>, category |-> "site",
   description |-> <<ChangeTags[k]>>, severity |-> o.severity,
   affectedStages |-> o.affectedStages]

\* The number of fields in which two options differ.
FieldsApart(o1, o2) ==
  (IF o1.date = o2.date THEN 0 ELSE 1)
  + (IF o1.severity = o2.severity THEN 0 ELSE 1)
  + (IF o1.affectedStages = o2.affectedStages THEN 0 ELSE 1)

ScoreChangeLists ==
  {<<ScoreChange(p[1], 1), ScoreChange(p[2], 2)>> :
     p \in {q \in ScoreOptions \X ScoreOptions : FieldsApart(q[1], q[2]) = 1}}

\* The defaults, and overrides that keep every candidate: one without the
\* temporal weight, one with a negative temporal weight, one whose weights add
\* up to more than 1.
ScoreConfigs ==
  { DefaultAnalyzerConfig,
    [DefaultAnalyzerConfig EXCEPT !.temporalWeight = 0, !.minConfidenceThreshold = 0],
    [DefaultAnalyzerConfig EXCEPT !.temporalWeight = -40, !.minConfidenceThreshold = 0],
    [DefaultAnalyzerConfig EXCEPT !.temporalWeight = 100, !.categoryWeight = 100,
                                  !.severityWeight = 0, !.stageMatchWeight = 0,
                                  !.minConfidenceThreshold = 0] }

InitScore ==
  /\ pc = "analyzeCauses"
  /\ events = <<>>
  /\ snapshots = <<>>
  /\ conversionRates = <<>>
  /\ detectorConfig = DefaultDetectorConfig
  /\ allBreaks = <<>>
  /\ breaks = << ScoredBreak >>
  /\ changes \in ScoreChangeLists
  /\ analyzerConfig \in ScoreConfigs
  /\ diagnoses = <<>>
  /\ rows = <<>>
  /\ loadErrors = <<>>
  /\ metadata = <<>>
  /\ argv = <<>>
  /\ exitCode = <<>>
  /\ db = EmptyDatabase

SpecScore == InitScore /\ [][NextCause]_vars

(***************************************************************************)
(* analyzeCauses on one break of any adjacent stage pair and one change of *)
(* any category, under weights that are large, negative or the defaults.   *)
(***************************************************************************)
ConfidenceBreaks == {<< makeBreak(<<"a">>, i, 8) >> : i \in StagePairs}

ConfidenceChanges ==
  {<< [date |-> date, funnelId |-> <<"a">>, category |-> category,
       description |-> <<"c1">>, severity |-> severity,
       affectedStages |-> affectedStages] >> :
     date \in {DateOfDay(8), DateOfDay(7), DateOfDay(5)},
     category \in ChangeCategory,
     severity \in {1, 3, 5},
     affectedStages \in {Undefined, <<"click", "landing">>}}

ConfidenceConfigs ==
  { DefaultAnalyzerConfig,
    [DefaultAnalyzerConfig EXCEPT !.temporalWeight = 100, !.categoryWeight = 100,
                                  !.severityWeight = 100, !.stageMatchWeight = 100,
                                  !.minConfidenceThreshold = 0],
    [DefaultAnalyzerConfig EXCEPT !.temporalWeight = -40, !.categoryWeight = -30,
                                  !.severityWeight = -20, !.stageMatchWeight = -10,
                                  !.minConfidenceThreshold = 0],
    [DefaultAnalyzerConfig EXCEPT !.temporalWeight = 150, !.categoryWeight = -50,
                                  !.minConfidenceThreshold = 0] }

InitConfidence ==
  /\ pc = "analyzeCauses"
  /\ events = <<>>
  /\ snapshots = <<>>
  /\ conversionRates = <<>>
  /\ detectorConfig = DefaultDetectorConfig
  /\ allBreaks = <<>>
  /\ breaks \in ConfidenceBreaks
  /\ changes \in ConfidenceChanges
  /\ analyzerConfig \in ConfidenceConfigs
  /\ diagnoses = <<>>
  /\ rows = <<>>
  /\ loadErrors = <<>>
  /\ metadata = <<>>
  /\ argv = <<>>
  /\ exitCode = <<>>
  /\ db = EmptyDatabase

SpecConfidence == InitConfidence /\ [][NextCause]_vars

(***************************************************************************)
(* A caller's detectBreaks(conversionRates, config) followed by            *)
(* analyzeCauses(breaks, changes), as the service chains them.             *)
(***************************************************************************)
\* The rates of funnel a's records: none, 1/4 or 3/4.
ChainRates == {0, 2, 4}

\* A change that is a candidate for every break of the days 1..MaxDay.
WildcardChange ==
  [date |-> DateOfDay(1), funnelId |-> <<"*">>, category |-> "tracking",
   description |-> <<"c1">>, severity |-> 3, affectedStages |-> Undefined]

InitChain ==
  /\ pc = "detectBreaks"
  /\ events = <<>>
  /\ snapshots = <<>>
  /\ \E seriesA \in [Days -> ChainRates], dropB \in SecondFunnelDrops,
        order \in {"forward", "reverse"} :
        /\ dropB = 0 => order = "forward"
        /\ conversionRates = RatesInput(seriesA, dropB, order)
  /\ detectorConfig \in DetectorConfigs
  /\ allBreaks = <<>>
  /\ breaks = <<>>
  /\ changes = << WildcardChange >>
  /\ analyzerConfig = DefaultAnalyzerConfig
  /\ diagnoses = <<>>
  /\ rows = <<>>
  /\ loadErrors = <<>>
  /\ metadata = <<>>
  /\ argv = <<>>
  /\ exitCode = <<>>
  /\ db = EmptyDatabase

AnalyzeBreaks ==
  /\ pc = "breaks"
  /\ diagnoses' = analyzeCauses(breaks, changes, analyzerConfig)
  /\ pc' = "diagnoses"
  /\ UNCHANGED <<events, snapshots, conversionRates, detectorConfig, allBreaks,
                 breaks, changes, analyzerConfig>>
  /\ UNCHANGED <<loaderVars, metadata, db, cliVars>>

NextChain == DetectBreaks \/ AnalyzeBreaks

SpecChain == InitChain /\ [][NextChain]_vars

(***************************************************************************)
(* detectBreaks on two funnels with a record on every day, each rate 1/4   *)
(* or 3/4, the records of funnel a first or last.                          *)
(***************************************************************************)
DedupRates == {2, 4}

InitDedup ==
  /\ pc = "detectBreaks"
  /\ events = <<>>
  /\ snapshots = <<>>
  /\ \E seriesA \in [Days -> DedupRates], seriesB \in [Days -> DedupRates],
        order \in {"forward", "reverse"} :
        LET forward == RecordsOfSeries(<<"a">>, seriesA, 1)
                       \o RecordsOfSeries(<<"b">>, seriesB, 1)
        IN  conversionRates = IF order = "reverse" THEN Reverse(forward) ELSE forward
  /\ detectorConfig \in DetectorConfigs
  /\ allBreaks = <<>>
  /\ breaks = <<>>
  /\ changes = <<>>
  /\ analyzerConfig = DefaultAnalyzerConfig
  /\ diagnoses = <<>>
  /\ rows = <<>>
  /\ loadErrors = <<>>
  /\ metadata = <<>>
  /\ argv = <<>>
  /\ exitCode = <<>>
  /\ db = EmptyDatabase

SpecDedup == InitDedup /\ [][NextDetect]_vars

(***************************************************************************)
(* The service's call: runDiagnosisFromData(events, changes) with the      *)
(* default configurations, on one funnel whose landing count drops.        *)
(***************************************************************************)
BaselineDays == 18
DropDays == 5

\* The events of day d: impression, click and landing, with or without the lead
\* and purchase rows.
DayEvents(d, withLead) ==
  LET landing == IF d <= BaselineDays THEN 900 ELSE 400
      row(stage, count) == [date |-> DateOfDay(d), funnelId |-> <<"a">>,
                            stage |-> stage, count |-> count, source |-> "meta"]
  IN  << row("impression", 10000), row("click", 1200), row("landing", landing) >>
      \o (IF withLead
           THEN << row("lead", IF d <= BaselineDays THEN 153 ELSE 68),
                   row("purchase", IF d <= BaselineDays THEN 45 ELSE 20) >>
           ELSE <<>>)

RECURSIVE EventsWithDropFrom(_, _)
EventsWithDropFrom(d, withLead) ==
  IF d > BaselineDays + DropDays THEN <<>>
  ELSE DayEvents(d, withLead) \o EventsWithDropFrom(d + 1, withLead)

generateEventsWithDrop(withLead, order) ==
  IF order = "forward" THEN EventsWithDropFrom(1, withLead)
  ELSE Reverse(EventsWithDropFrom(1, withLead))

\* The site change of the scenario, and another change of the same day.
SiteChange(day, affectedStages) ==
  [date |-> DateOfDay(day), funnelId |-> <<"a">>, category |-> "site",
   description |-> <<"c1">>, severity |-> 4, affectedStages |-> affectedStages]

AdChange(day) ==
  [date |-> DateOfDay(day), funnelId |-> <<"*">>, category |-> "ad",
   description |-> <<"c2">>, severity |-> 5, affectedStages |-> Undefined]

SiteChangeDays == (BaselineDays - 1)..(BaselineDays + DropDays)

ScenarioChanges(day, affectedStages, other) ==
  CASE other = "none"   -> << SiteChange(day, affectedStages) >>
    [] other = "before" -> << AdChange(day), SiteChange(day, affectedStages) >>
    [] other = "after"  -> << SiteChange(day, affectedStages), AdChange(day) >>

\* A service that would count the rows of the files, rejected ones included.
DiagnosisMetadataCountingRows(evs, chs, brks, errs) ==
  [eventsLoaded |-> Len(evs) + Len(errs), changesLoaded |-> Len(chs),
   breaksDetected |-> Len(brks), loadErrors |-> errs]

\* The metadata of a DiagnosisResult, but for executionTimeMs (a reading of
\* the clock).
DiagnosisMetadata(evs, chs, brks, errs) ==
  [eventsLoaded |-> Len(evs), changesLoaded |-> Len(chs),
   breaksDetected |-> Len(brks), loadErrors |-> errs]

InitService ==
  /\ pc = "runDiagnosisFromData"
  /\ \E withLead \in BOOLEAN, order \in {"forward", "reverse"} :
        events = generateEventsWithDrop(withLead, order)
  /\ snapshots = <<>>
  /\ conversionRates = <<>>
  /\ detectorConfig = DefaultDetectorConfig
  /\ allBreaks = <<>>
  /\ breaks = <<>>
  /\ \E day \in SiteChangeDays,
        affectedStages \in {<<"landing">>, <<"landing", "lead">>},
        other \in {"none", "before", "after"} :
        changes = ScenarioChanges(day, affectedStages, other)
  /\ analyzerConfig = DefaultAnalyzerConfig
  /\ diagnoses = <<>>
  /\ rows = <<>>
  /\ loadErrors = <<>>
  /\ metadata = <<>>
  /\ argv = <<>>
  /\ exitCode = <<>>
  /\ db = EmptyDatabase

RunDiagnosisFromData ==
  /\ pc = "runDiagnosisFromData"
  /\ snapshots' = buildSnapshots(events)
  /\ conversionRates' = calculateConversionRates(snapshots')
  /\ allBreaks' = rawBreaks(conversionRates', detectorConfig)
  /\ breaks' = deduplicateConsecutiveBreaks(allBreaks')
  /\ diagnoses' = analyzeCauses(breaks', changes, analyzerConfig)
  /\ metadata' = DiagnosisMetadata(events, changes, breaks', <<>>)
  /\ pc' = "done"
  /\ UNCHANGED <<events, detectorConfig, changes, analyzerConfig>>
  /\ UNCHANGED <<loaderVars, db, cliVars>>

NextService == RunDiagnosisFromData

SpecService == InitService /\ [][NextService]_vars

(***************************************************************************)
(* Inputs of the CSV loaders: the rows of an events file and of a changes  *)
(* file, each field drawn from well-formed and malformed texts.            *)
(***************************************************************************)
MaxRows == 2

RowFunnelId == <<"f">>

RowDescription == <<"d">>

RowSource == <<"m">>

\* A calendar day, a text of the right shape that is no calendar day, a text
\* of another shape, and an empty field.
EventRowDates == {<<"2", "0", "2", "5", "-", "0", "1", "-", "0", "2">>,
                  <<"2", "0", "2", "5", "-", "0", "2", "-", "3", "0">>,
                  <<"2", "0", "2", "5", "-", "1", "-", "2">>,
                  <<>>}

EventRowStages == {<<"c", "l", "i", "c", "k">>, <<"C", "L", "I", "C", "K">>, <<"v", "i", "e", "w">>}

EventRowCounts == {<<"1", "0">>, <<"1", ".", "5">>, <<"a", "b", "c">>, <<"-", "5">>}

EventRows ==
  {[date |-> d, funnel_id |-> RowFunnelId, stage |-> s, count |-> c, source |-> RowSource] :
     d \in EventRowDates, s \in EventRowStages, c \in EventRowCounts}

ChangeRowDates == {<<"2", "0", "2", "5", "-", "0", "1", "-", "0", "2">>,
                   <<"2", "0", "2", "5", "-", "1", "3", "-", "4", "5">>,
                   <<"0", "1", "/", "0", "2", "/", "2", "0", "2", "5">>}

ChangeRowCategories == {<<"s", "i", "t", "e">>, <<"b", "o", "g", "u", "s">>}

ChangeRowSeverities == {<<"3">>, <<"4", "x">>, <<"6">>, <<"0">>}

ChangeRowAffectedStages == {<<>>, <<"l", "a", "n", "d", "i", "n", "g", ";", " ", "l", "e", "a", "d", ";">>}

ChangeRows ==
  {[date |-> d, funnel_id |-> RowFunnelId, category |-> c, description |-> RowDescription,
    severity |-> s, affected_stages |-> a] :
     d \in ChangeRowDates, c \in ChangeRowCategories, s \in ChangeRowSeverities,
     a \in ChangeRowAffectedStages}

RowLists(rowSet) == UNION {[1..n -> rowSet] : n \in 0..MaxRows}

InitLoad ==
  /\ pc \in {"loadEvents", "loadChanges"}
  /\ rows \in RowLists(IF pc = "loadEvents" THEN EventRows ELSE ChangeRows)
  /\ loadErrors = <<>>
  /\ metadata = <<>>
  /\ argv = <<>>
  /\ exitCode = <<>>
  /\ db = EmptyDatabase
  /\ events = <<>>
  /\ snapshots = <<>>
  /\ conversionRates = <<>>
  /\ detectorConfig = DefaultDetectorConfig
  /\ allBreaks = <<>>
  /\ breaks = <<>>
  /\ changes = <<>>
  /\ analyzerConfig = DefaultAnalyzerConfig
  /\ diagnoses = <<>>

LoadEventsFromCsv ==
  /\ pc = "loadEvents"
  /\ events' = loadEventsFromCsv(rows).events
  /\ loadErrors' = loadEventsFromCsv(rows).errors
  /\ pc' = "eventsLoaded"
  /\ UNCHANGED <<rows, snapshots, conversionRates, detectorConfig, allBreaks, breaks,
                 changes, analyzerConfig, diagnoses, metadata, db, cliVars>>

LoadChangesFromCsv ==
  /\ pc = "loadChanges"
  /\ changes' = loadChangesFromCsv(rows).changes
  /\ loadErrors' = loadChangesFromCsv(rows).errors
  /\ pc' = "changesLoaded"
  /\ UNCHANGED <<rows, events, snapshots, conversionRates, detectorConfig, allBreaks,
                 breaks, analyzerConfig, diagnoses, metadata, db, cliVars>>

NextLoad == LoadEventsFromCsv \/ LoadChangesFromCsv

SpecLoad == InitLoad /\ [][NextLoad]_vars

(***************************************************************************)
(* The service's call on files: runDiagnosis(config), on an events file of *)
(* one funnel's click and landing counts of January 2025 and a changes     *)
(* file, some of their rows malformed.  rows holds the records of both     *)
(* files.                                                                  *)
(***************************************************************************)
TwoDigits(n) == << Digits[(n \div 10) + 1], Digits[(n % 10) + 1] >>

\* The text of the day-th day of January 2025.
DateText(day) == <<"2", "0", "2", "5", "-", "0", "1", "-">> \o TwoDigits(day)

\* What the core reads in a text of the files: dayjs reads the date (the model's
\* date token for a day of January 2025), and a stage text is compared with the
\* stages.
DateOfText(text) ==
  IF /\ MatchesDateFormat(text)
     /\ SubSeq(text, 1, 8) = <<"2", "0", "2", "5", "-", "0", "1", "-">>
     /\ DigitsValue(text, 9, 10) \in 1..Len(DateTok)
  THEN DateOfDay(DigitsValue(text, 9, 10))
  ELSE text

StageOfText(text) ==
  IF VALID_STAGES(text) THEN CHOOSE stage \in FunnelStage : StageText(stage) = text
  ELSE text

CoreEvents(loaded) == [i \in 1..Len(loaded) |-> [loaded[i] EXCEPT !.date = DateOfText(@)]]

CoreChanges(loaded) ==
  [i \in 1..Len(loaded) |->
     [loaded[i] EXCEPT
        !.date = DateOfText(@),
        !.affectedStages = IF @ = Undefined THEN Undefined
                           ELSE [j \in 1..Len(@) |-> StageOfText(@[j])]]]

\* The landing counts of the days of a file; the click count of each day is 4.
RunLandingCounts == {<<4>>, <<4, 4, 4, 4>>, <<4, 3, 3, 2>>}

EventsFileRow(day, stage, count) ==
  [date |-> DateText(day), funnel_id |-> <<"a">>, stage |-> StageText(stage),
   count |-> NumberText(count), source |-> RowSource]

EventsFile(landing) ==
  [i \in 1..(2 * Len(landing)) |->
     IF i % 2 = 1 THEN EventsFileRow((i + 1) \div 2, "click", 4)
     ELSE EventsFileRow(i \div 2, "landing", landing[i \div 2])]

\* The file with the field of the rows `at` replaced by a malformed text.
Damaged(file, at, field) ==
  [i \in 1..Len(file) |->
     IF i \notin at THEN file[i]
     ELSE CASE field = "date"  -> [file[i] EXCEPT !.date = <<"b", "a", "d", "-", "d", "a", "t", "e">>]
            [] field = "stage" -> [file[i] EXCEPT !.stage = <<"v", "i", "e", "w">>]
            [] field = "count" -> [file[i] EXCEPT !.count = <<"a", "b", "c">>]]

RunEventFiles ==
  {<<>>} \cup
  {Damaged(EventsFile(landing), at, field) :
     landing \in RunLandingCounts,
     at \in {s \in SUBSET (1..8) : Cardinality(s) <= 2},
     field \in {"date", "stage", "count"}}

ChangesFileRow(day, category, severity, affectedStages) ==
  [date |-> DateText(day), funnel_id |-> <<"a">>, category |-> category,
   description |-> RowDescription, severity |-> severity,
   affected_stages |-> affectedStages]

RunChangeRows ==
  {ChangesFileRow(2, CategoryText("site"), <<"4">>, StageText("landing")),
   ChangesFileRow(4, CategoryText("ad"), <<"5">>, <<>>),
   ChangesFileRow(2, CategoryText("site"), <<"9">>, <<>>),
   ChangesFileRow(4, <<"b", "o", "g", "u", "s">>, <<"3">>, <<>>)}

RunChangeFiles == UNION {[1..n -> RunChangeRows] : n \in 0..2}

RunDetectorConfig ==
  [baselineWindowDays |-> 2, currentWindowDays |-> 1,
   minRelativeDrop |-> Rat(15, 100), minZScore |-> Rat(15, 10),
   minBaselineDataPoints |-> 1]

InitRun ==
  /\ pc = "runDiagnosis"
  /\ \E eventsFile \in RunEventFiles, changesFile \in RunChangeFiles :
        rows = [events |-> eventsFile, changes |-> changesFile]
  /\ loadErrors = <<>>
  /\ metadata = <<>>
  /\ argv = <<>>
  /\ exitCode = <<>>
  /\ db = EmptyDatabase
  /\ events = <<>>
  /\ snapshots = <<>>
  /\ conversionRates = <<>>
  /\ detectorConfig = RunDetectorConfig
  /\ allBreaks = <<>>
  /\ breaks = <<>>
  /\ changes = <<>>
  /\ analyzerConfig = DefaultAnalyzerConfig
  /\ diagnoses = <<>>

RunDiagnosis ==
  /\ pc = "runDiagnosis"
  /\ LET eventResult == loadEventsFromCsv(rows.events)
         changeResult == loadChangesFromCsv(rows.changes)
     IN  /\ events' = CoreEvents(eventResult.events)
         /\ changes' = CoreChanges(changeResult.changes)
         /\ loadErrors' = eventResult.errors \o changeResult.errors
  /\ snapshots' = buildSnapshots(events')
  /\ conversionRates' = calculateConversionRates(snapshots')
  /\ allBreaks' = rawBreaks(conversionRates', detectorConfig)
  /\ breaks' = deduplicateConsecutiveBreaks(allBreaks')
  /\ diagnoses' = analyzeCauses(breaks', changes', analyzerConfig)
  /\ metadata' = DiagnosisMetadata(events', changes', breaks', loadErrors')
  /\ pc' = "done"
  /\ UNCHANGED <<rows, detectorConfig, analyzerConfig, db, cliVars>>

NextRun == RunDiagnosis

SpecRun == InitRun /\ [][NextRun]_vars

(***************************************************************************)
(* The CLI.  An argument is a text; a flag, a path and a format are texts  *)
(* of one word.  The file system gives the files by the word of their      *)
(* path: a file is the records csv-parse returns for it, or a content      *)
(* csv-parse throws on; a path outside the file system cannot be read.     *)
(***************************************************************************)
MaxArgs == 3

RECURSIVE Pow10(_)
Pow10(k) == IF k = 0 THEN 1 ELSE 10 * Pow10(k - 1)

\* parseFloat(text): an optional sign, digits, and a point with digits.
parseFloat(text) ==
  LET signed == text # <<>> /\ text[1] \in {"-", "+"}
      from == IF signed THEN 2 ELSE 1
      intEnds == {e \in (from - 1)..Len(text) : \A i \in from..e : IsDigit(text[i])}
      intTo == CHOOSE e \in intEnds : \A f \in intEnds : f <= e
      point == intTo + 1 <= Len(text) /\ text[intTo + 1] = "."
      fracEnds == {e \in (intTo + 1)..Len(text) :
                     point /\ \A i \in (intTo + 2)..e : IsDigit(text[i])}
      fracTo == IF point THEN CHOOSE e \in fracEnds : \A f \in fracEnds : f <= e
                ELSE intTo + 1
      intValue == IF intTo < from THEN 0 ELSE DigitsValue(text, from, intTo)
      fracValue == IF fracTo < intTo + 2 THEN 0 ELSE DigitsValue(text, intTo + 2, fracTo)
      scale == Pow10(fracTo - (intTo + 1))
  IN  IF intTo < from /\ fracTo < intTo + 2 THEN Rat(0, 0)
      ELSE Rat((IF signed /\ text[1] = "-" THEN -1 ELSE 1) * (intValue * scale + fracValue),
               scale)

\* An optional field of CliArgs is <<>> while undefined and <<value>> once set.
InitialCliArgs ==
  [events |-> <<>>, changes |-> <<>>, format |-> <<"table">>,
   baselineDays |-> <<>>, currentDays |-> <<>>, minDrop |-> <<>>]

\* The for loop of parseArgs from the 1-based position i, and the check of the
\* required arguments after it.  exit is <<n>> when parseArgs calls
\* process.exit(n), and <<>> when it returns args.
RECURSIVE parseArgsFrom(_, _, _)
parseArgsFrom(args, i, a) ==
  LET value == IF i + 1 <= Len(args) THEN args[i + 1] ELSE Undefined
  IN  IF i > Len(args)
      THEN [exit |-> IF Falsy(a.events) \/ Falsy(a.changes) THEN <<2>> ELSE <<>>,
            args |-> a]
      ELSE CASE args[i] = <<"--events">> ->
                  parseArgsFrom(args, i + 2, [a EXCEPT !.events = value])
             [] args[i] = <<"--changes">> ->
                  parseArgsFrom(args, i + 2, [a EXCEPT !.changes = value])
             [] args[i] = <<"--format">> ->
                  parseArgsFrom(args, i + 2, [a EXCEPT !.format = value])
             [] args[i] = <<"--baseline-days">> ->
                  parseArgsFrom(args, i + 2, [a EXCEPT !.baselineDays = <<parseInt(value)>>])
             [] args[i] = <<"--current-days">> ->
                  parseArgsFrom(args, i + 2, [a EXCEPT !.currentDays = <<parseInt(value)>>])
             [] args[i] = <<"--min-drop">> ->
                  parseArgsFrom(args, i + 2, [a EXCEPT !.minDrop = <<parseFloat(value)>>])
             [] args[i] = <<"--help">> -> [exit |-> <<0>>, args |-> a]
             [] OTHER -> [exit |-> <<2>>, args |-> a]

\* A parseArgs whose --help falls through to the check of the required
\* arguments.
parseArgsHelpContinues(args) ==
  parseArgsFrom(SelectSeq(args, LAMBDA t : t # <<"--help">>), 3, InitialCliArgs)

\* parseArgs(process.argv): the loop starts at argv[2], the third argument.
parseArgs(args) == parseArgsFrom(args, 3, InitialCliArgs)

\* { ...DEFAULT_CONFIG, ...breakDetectorConfig } for the breakDetectorConfig
\* main builds from the options that are not undefined.
CliDetectorConfig(a) ==
  [DefaultDetectorConfig EXCEPT
     !.baselineWindowDays = IF a.baselineDays = <<>> THEN @ ELSE a.baselineDays[1].n,
     !.currentWindowDays = IF a.currentDays = <<>> THEN @ ELSE a.currentDays[1].n,
     !.minRelativeDrop = IF a.minDrop = <<>> THEN @ ELSE a.minDrop[1]]

\* fs.readFileSync and csv-parse's parse return the records of the file.
Readable(fs, path) ==
  /\ Len(path) = 1
  /\ path[1] \in DOMAIN fs
  /\ fs[path[1]].parses

\* result.diagnoses.some(d => d.break.severity === BreakSeverity.CRITICAL)
hasCritical(diags) == \E d \in Range(diags) : d.break.severity = "critical"

\* The files of ten days: 10 clicks a day, the landings of the first seven days
\* between 8 and 10, and those of the last three days as given.
CliEventsFile(last) ==
  [i \in 1..20 |->
     IF i % 2 = 1 THEN EventsFileRow((i + 1) \div 2, "click", 10)
     ELSE EventsFileRow(i \div 2, "landing",
                        IF i \div 2 > 7 THEN last ELSE IF (i \div 2) % 2 = 1 THEN 10 ELSE 8)]

File(records) == [parses |-> TRUE, records |-> records]

\* A content csv-parse throws on (a record with too many fields).
Malformed == [parses |-> FALSE, records |-> <<>>]

FileSystems ==
  {[f \in {"events.csv", "changes.csv"} |->
      IF f = "events.csv" THEN eventsFile ELSE changesFile] :
     eventsFile \in {File(CliEventsFile(last)) : last \in {9, 7, 2}} \cup {Malformed},
     changesFile \in {File(<<ChangesFileRow(8, CategoryText("site"), <<"4">>,
                                            StageText("landing"))>>),
                      Malformed}}

\* What a command line is made of: a flag with or without its value, --help,
\* and an argument parseArgs does not know.
CliItems ==
  {<< <<"--events">>, <<"events.csv">> >>, << <<"--events">>, <<"missing.csv">> >>,
   << <<"--changes">>, <<"changes.csv">> >>, << <<"--changes">> >>,
   << <<"--format">>, <<"json">> >>, << <<"--baseline-days">>, <<"7">> >>,
   << <<"--current-days">>, <<"1">> >>, << <<"--min-drop">>, <<"0", ".", "5">> >>,
   << <<"--help">> >>, << <<"--bogus">> >>}

RECURSIVE Flatten(_)
Flatten(items) == IF items = <<>> THEN <<>> ELSE Head(items) \o Flatten(Tail(items))

CommandLines ==
  {<< <<"node">>, <<"runDiagnosis.ts">> >> \o Flatten(items) :
     items \in UNION {[1..n -> CliItems] : n \in 0..MaxArgs}}

InitCli ==
  /\ pc = "main"
  /\ argv \in CommandLines
  /\ rows \in FileSystems
  /\ exitCode = <<>>
  /\ loadErrors = <<>>
  /\ metadata = <<>>
  /\ db = EmptyDatabase
  /\ events = <<>>
  /\ snapshots = <<>>
  /\ conversionRates = <<>>
  /\ detectorConfig = DefaultDetectorConfig
  /\ allBreaks = <<>>
  /\ breaks = <<>>
  /\ changes = <<>>
  /\ analyzerConfig = DefaultAnalyzerConfig
  /\ diagnoses = <<>>

\* main(): parseArgs, runDiagnosis on the two files, and process.exit.
Main ==
  /\ pc = "main"
  /\ LET parsed == parseArgs(argv)
         a == parsed.args
     IN  IF parsed.exit # <<>>
         THEN /\ exitCode' = parsed.exit
              /\ pc' = "exited"
              /\ UNCHANGED <<events, changes, loadErrors, snapshots, conversionRates,
                             detectorConfig, allBreaks, breaks, diagnoses, metadata>>
         ELSE IF ~Readable(rows, a.events) \/ ~Readable(rows, a.changes)
         THEN /\ exitCode' = <<2>>
              /\ pc' = "threw"
              /\ UNCHANGED <<events, changes, loadErrors, snapshots, conversionRates,
                             detectorConfig, allBreaks, breaks, diagnoses, metadata>>
         ELSE LET eventResult == loadEventsFromCsv(rows[a.events[1]].records)
                  changeResult == loadChangesFromCsv(rows[a.changes[1]].records)
              IN  /\ events' = CoreEvents(eventResult.events)
                  /\ changes' = CoreChanges(changeResult.changes)
                  /\ loadErrors' = eventResult.errors \o changeResult.errors
                  /\ detectorConfig' = CliDetectorConfig(a)
                  /\ snapshots' = buildSnapshots(events')
                  /\ conversionRates' = calculateConversionRates(snapshots')
                  /\ allBreaks' = rawBreaks(conversionRates', detectorConfig')
                  /\ breaks' = deduplicateConsecutiveBreaks(allBreaks')
                  /\ diagnoses' = analyzeCauses(breaks', changes', analyzerConfig)
                  /\ metadata' = DiagnosisMetadata(events', changes', breaks', loadErrors')
                  /\ exitCode' = IF hasCritical(diagnoses') THEN <<1>> ELSE <<0>>
                  /\ pc' = "completed"
  /\ UNCHANGED <<argv, rows, analyzerConfig, db>>

NextCli == Main

SpecCli == InitCli /\ [][NextCli]_vars

(***************************************************************************)
(* The event repository's calls: insertMany(events) and                    *)
(* findByFunnel(funnelId), in any sequence on one database.                *)
(***************************************************************************)
MaxRowId == 3

StoreEvent(day, funnelId, stage, count, source) ==
  [date |-> DateOfDay(day), funnelId |-> funnelId, stage |-> stage, count |-> count,
   source |-> source]

\* An event without source with three counts, one of them refused by the
\* CHECK; the same with an empty source; and events that differ from it in one
\* field of the key.
StoreEvents ==
  {StoreEvent(1, <<"a">>, "click", count, Undefined) : count \in {1, 2, -1}} \cup
  {StoreEvent(1, <<"a">>, "click", 3, <<>>),
   StoreEvent(2, <<"a">>, "click", 1, Undefined),
   StoreEvent(1, <<"b">>, "click", 1, Undefined),
   StoreEvent(1, <<"a">>, "landing", 1, Undefined),
   StoreEvent(1, <<"a">>, "click", 1, <<"m">>)}

StoreBatches == UNION {[1..n -> StoreEvents] : n \in 1..2}

InitStore ==
  /\ pc = "store"
  /\ db = EmptyDatabase
  /\ events = <<>>
  /\ snapshots = <<>>
  /\ conversionRates = <<>>
  /\ detectorConfig = DefaultDetectorConfig
  /\ allBreaks = <<>>
  /\ breaks = <<>>
  /\ changes = <<>>
  /\ analyzerConfig = DefaultAnalyzerConfig
  /\ diagnoses = <<>>
  /\ rows = <<>>
  /\ loadErrors = <<>>
  /\ metadata = <<>>
  /\ argv = <<>>
  /\ exitCode = <<>>

\* repo.insertMany(batch); events holds the batch of the call.
InsertMany ==
  /\ \E batch \in StoreBatches :
        /\ db.seq + Len(batch) <= MaxRowId
        /\ events' = batch
        /\ db' = insertMany(db, batch)
  /\ pc' = "inserted"
  /\ UNCHANGED <<snapshots, conversionRates, detectorConfig, allBreaks, breaks, changes,
                 analyzerConfig, diagnoses, loaderVars, metadata, cliVars>>

\* events = repo.findByFunnel(funnelId)
FindByFunnel ==
  /\ \E funnelId \in {<<"a">>, <<"b">>} : events' \in findByFunnel(db, funnelId)
  /\ pc' = "found"
  /\ UNCHANGED <<db, snapshots, conversionRates, detectorConfig, allBreaks, breaks, changes,
                 analyzerConfig, diagnoses, loaderVars, metadata, cliVars>>

NextStore == InsertMany \/ FindByFunnel

SpecStore == InitStore /\ [][NextStore]_vars

(***************************************************************************)
(* The service's call on the events of four days of one funnel, each day   *)
(* with its click and landing counts, some days without a click, under a   *)
(* configuration of short windows.                                         *)
(***************************************************************************)
\* The <<click, landing>> counts a day may have.
GuardDayCounts == {<<4, 4>>, <<4, 3>>, <<4, 2>>, <<4, 0>>, <<0, 0>>}

GuardDays == 1..4

GuardEvents(counts) ==
  [i \in 1..(2 * Cardinality(GuardDays)) |->
     [date |-> DateOfDay((i + 1) \div 2), funnelId |-> <<"a">>,
      stage |-> IF i % 2 = 1 THEN "click" ELSE "landing",
      count |-> counts[(i + 1) \div 2][2 - (i % 2)], source |-> "meta"]]

InitGuard ==
  /\ pc = "runDiagnosisFromData"
  /\ \E counts \in [GuardDays -> GuardDayCounts] : events = GuardEvents(counts)
  /\ snapshots = <<>>
  /\ conversionRates = <<>>
  /\ detectorConfig = RunDetectorConfig
  /\ allBreaks = <<>>
  /\ breaks = <<>>
  /\ changes = <<>>
  /\ analyzerConfig = DefaultAnalyzerConfig
  /\ diagnoses = <<>>
  /\ rows = <<>>
  /\ loadErrors = <<>>
  /\ metadata = <<>>
  /\ argv = <<>>
  /\ exitCode = <<>>
  /\ db = EmptyDatabase

SpecGuard == InitGuard /\ [][NextService]_vars

(***************************************************************************)
(* Properties of the break detector.                                       *)
(***************************************************************************)
SameGroup(x, y) ==
  x.funnelId = y.funnelId /\ x.fromStage = y.fromStage /\ x.toStage = y.toStage

\* The days on which the raw flags of b's group fall.
FlaggedDays(b) ==
  {DayNum(x.detectedDate) : x \in {y \in Range(allBreaks) : SameGroup(y, b)}}

\* lo..hi is a maximal run of flagged days of b's group.
MaximalRun(b, lo, hi) ==
  /\ lo <= hi
  /\ \A d \in lo..hi : d \in FlaggedDays(b)
  /\ (lo - 1) \notin FlaggedDays(b)
  /\ (hi + 1) \notin FlaggedDays(b)

RunMembers(b, lo, hi) ==
  {x \in Range(allBreaks) : SameGroup(x, b) /\ DayNum(x.detectedDate) \in lo..hi}

RunReports(b, lo, hi) ==
  {k \in 1..Len(breaks) :
     SameGroup(breaks[k], b) /\ DayNum(breaks[k].detectedDate) \in lo..hi}

\* C1: every break detectBreaks returns has relativeDrop >= minRelativeDrop and
\* |zScore| >= minZScore, and is one of the raw flags (the deduplication emits
\* nothing that did not pass both thresholds).
C1_BreaksPassThresholds ==
  pc = "breaks" =>
    \A k \in 1..Len(breaks) :
      /\ RGe(breaks[k].relativeDrop, detectorConfig.minRelativeDrop)
      /\ RGe(breaks[k].zScoreSq,
             RMul(detectorConfig.minZScore, detectorConfig.minZScore))
      /\ breaks[k] \in Range(allBreaks)

\* A deduplicated, non-empty result under non-zero thresholds.
C1_Witness ==
  /\ pc = "breaks"
  /\ Len(breaks) >= 1
  /\ Len(allBreaks) > Len(breaks)
  /\ detectorConfig.minZScore # Zero
  /\ detectorConfig.minRelativeDrop # Zero

\* C2: within one (funnelId, fromStage, toStage) group every maximal run of
\* consecutive flagged days is reported as exactly one break, the run's member of
\* largest |zScore|, the earliest-dated one on a tie.
C2_OneBreakPerRun ==
  pc = "breaks" =>
    \A b \in Range(allBreaks) : \A lo \in Days : \A hi \in Days :
      MaximalRun(b, lo, hi) =>
        /\ Cardinality(RunReports(b, lo, hi)) = 1
        /\ \A k \in RunReports(b, lo, hi) :
             /\ breaks[k] \in RunMembers(b, lo, hi)
             /\ \A m \in RunMembers(b, lo, hi) :
                  /\ RLe(m.zScoreSq, breaks[k].zScoreSq)
                  /\ m.zScoreSq = breaks[k].zScoreSq =>
                       DayNum(breaks[k].detectedDate) <= DayNum(m.detectedDate)

\* A run of several flagged days whose reported break is not its first day.
C2_Witness ==
  /\ pc = "breaks"
  /\ \E b \in Range(allBreaks) : \E lo \in Days : \E hi \in Days :
       /\ MaximalRun(b, lo, hi)
       /\ lo < hi
       /\ \E k \in RunReports(b, lo, hi) : DayNum(breaks[k].detectedDate) > lo

\* Two separate runs in one group.
C2_TwoRuns ==
  /\ pc = "breaks"
  /\ \E k \in 1..Len(breaks) : \E m \in 1..Len(breaks) :
       k # m /\ SameGroup(breaks[k], breaks[m])

\* A run whose largest |zScore| is shared by two days.
C2_Tie ==
  /\ pc = "breaks"
  /\ \E x \in Range(allBreaks) : \E y \in Range(allBreaks) :
       /\ SameGroup(x, y)
       /\ DayNum(y.detectedDate) = DayNum(x.detectedDate) + 1
       /\ x.zScoreSq = y.zScoreSq
       /\ x \in Range(breaks)

\* C3: severity is CRITICAL iff relativeDrop > 0.40 or |zScore| > 3.0, otherwise
\* SIGNIFICANT iff relativeDrop > 0.20 or |zScore| > 2.0, otherwise WARNING, for
\* every raw flag and every returned break.
SeverityAsSpecified(b) ==
  LET critical == RGt(b.relativeDrop, Rat(2, 5)) \/ RGt(b.zScoreSq, Rat(9, 1))
      significant == RGt(b.relativeDrop, Rat(1, 5)) \/ RGt(b.zScoreSq, Rat(4, 1))
  IN  /\ b.severity = "critical" <=> critical
      /\ b.severity = "significant" <=> (~critical /\ significant)
      /\ b.severity = "warning" <=> (~critical /\ ~significant)

C3_SeverityStrict ==
  pc = "breaks" =>
    \A b \in Range(allBreaks) \cup Range(breaks) : SeverityAsSpecified(b)

\* relativeDrop exactly 0.40 with |zScore| <= 3.0, classified SIGNIFICANT.
C3_Witness ==
  /\ pc = "breaks"
  /\ \E b \in Range(breaks) :
       /\ b.relativeDrop = Rat(2, 5)
       /\ RLe(b.zScoreSq, Rat(9, 1))
       /\ b.severity = "significant"

\* relativeDrop exactly 0.20 with |zScore| <= 2.0, classified WARNING.
C3_WarningBoundary ==
  /\ pc = "breaks"
  /\ \E b \in Range(breaks) :
       /\ b.relativeDrop = Rat(1, 5)
       /\ RLe(b.zScoreSq, Rat(4, 1))
       /\ b.severity = "warning"

\* The elements of a list that belong to one funnel, in the list's order.
OnlyFunnel(s, funnelId) ==
  KeepIdx(s, {k \in 1..Len(s) : s[k].funnelId = funnelId}, 1)

InputFunnelIds == {conversionRates[k].funnelId : k \in 1..Len(conversionRates)}

\* C12: the breaks reported for a funnel are those detectBreaks reports when
\* the input holds the records of that funnel alone, whatever the records of
\* the other funnels are.
C12_FunnelsIndependent ==
  pc = "breaks" =>
    \A funnelId \in InputFunnelIds :
      OnlyFunnel(breaks, funnelId)
        = detectBreaks(OnlyFunnel(conversionRates, funnelId), detectorConfig)

\* Two funnels have a break each, the later funnel of the input the earlier
\* break.
C12_Witness ==
  /\ pc = "breaks"
  /\ Len(breaks) >= 2
  /\ breaks[1].funnelId = <<"b">>
  /\ \E n \in 2..Len(breaks) : breaks[n].funnelId = <<"a">>
  /\ conversionRates[1].funnelId = <<"a">>

\* The configurations that differ from config only by lower thresholds.
LooserConfigs(config) ==
  {[config EXCEPT !.minRelativeDrop = r, !.minZScore = z] :
     r \in {x \in {Zero, Rat(15, 100)} : RLe(x, config.minRelativeDrop)},
     z \in {x \in {Zero, Rat(1, 2), Rat(15, 10)} : RLe(x, config.minZScore)}}

\* C13: a configuration with higher minRelativeDrop and minZScore never
\* reports more breaks than one with lower ones, the other fields being equal.
C13_StricterNeverMore ==
  pc = "breaks" =>
    \A looser \in LooserConfigs(detectorConfig) :
      Len(breaks) <= Len(detectBreaks(conversionRates, looser))

\* The records of a funnel in the baseline window of a detection date.
BaselineRecords(funnelId, date) ==
  {k \in 1..Len(conversionRates) :
     /\ conversionRates[k].funnelId = funnelId
     /\ LET diff == DayNum(date) - DayNum(conversionRates[k].date)
        IN  /\ diff >= detectorConfig.currentWindowDays
            /\ diff < detectorConfig.baselineWindowDays + detectorConfig.currentWindowDays}

\* The baseline of a detection date has enough points and a mean other than 0
\* (rates are never negative, so the mean is 0 only if every rate is).
QualifyingBaseline(funnelId, fromStage, toStage, date) ==
  /\ Cardinality(BaselineRecords(funnelId, date)) >= detectorConfig.minBaselineDataPoints
  /\ \E k \in BaselineRecords(funnelId, date) :
       RateOfPair(conversionRates[k], fromStage, toStage) # Zero

\* C14: no break is reported at a detection date whose baseline window holds
\* fewer than minBaselineDataPoints points or has a mean rate of 0; so a funnel
\* with fewer than minBaselineDataPoints + 1 records has no break.
C14_NoBreakWithoutBaseline ==
  \A n \in 1..Len(allBreaks) :
    LET b == allBreaks[n]
    IN  /\ QualifyingBaseline(b.funnelId, b.fromStage, b.toStage, b.detectedDate)
        /\ Len(OnlyFunnel(conversionRates, b.funnelId))
             >= detectorConfig.minBaselineDataPoints + 1

\* Funnel a has a break, and a date of funnel a whose rate fell to 0 from a
\* baseline of enough points but of mean 0 is not reported; funnel b, with as
\* many records as minBaselineDataPoints, has no break.
C14_Witness ==
  /\ pc = "breaks"
  /\ \E n \in 1..Len(breaks) : breaks[n].funnelId = <<"a">>
  /\ \E k \in 1..Len(conversionRates) :
       LET cr == conversionRates[k]
       IN  /\ cr.funnelId = <<"a">>
           /\ Cardinality(BaselineRecords(cr.funnelId, cr.date))
                >= detectorConfig.minBaselineDataPoints
           /\ ~QualifyingBaseline(cr.funnelId, "impression", "click", cr.date)
  /\ Len(OnlyFunnel(conversionRates, <<"b">>)) = detectorConfig.minBaselineDataPoints
  /\ Len(OnlyFunnel(conversionRates, <<"b">>)) > 0
  /\ OnlyFunnel(breaks, <<"b">>) = <<>>

C16_Empty ==
  pc = "breaks" /\ conversionRates = <<>> /\ breaks = <<>>

\* C15: the breaks detectBreaks returns are in ascending order of detectedDate
\* across funnels and stage pairs, and analyzeCauses returns one diagnosis per
\* break, in the order of the breaks.
C15_SortedByDate ==
  /\ \A i, j \in 1..Len(breaks) :
       i < j => localeCompare(breaks[i].detectedDate, breaks[j].detectedDate) <= 0
  /\ pc = "diagnoses" =>
       /\ Len(diagnoses) = Len(breaks)
       /\ \A n \in 1..Len(breaks) : diagnoses[n].break = breaks[n]

\* The raw flags are out of date order, and the breaks of two dates are
\* diagnosed.
C15_Witness ==
  /\ pc = "diagnoses"
  /\ Len(diagnoses) >= 2
  /\ diagnoses[1].break.detectedDate # diagnoses[Len(diagnoses)].break.detectedDate
  /\ \E i, j \in 1..Len(allBreaks) :
       /\ i < j
       /\ localeCompare(allBreaks[i].detectedDate, allBreaks[j].detectedDate) > 0
       /\ allBreaks[i] \in Range(breaks) /\ allBreaks[j] \in Range(breaks)

(***************************************************************************)
(* Properties of the funnel analyzer.                                      *)
(***************************************************************************)
\* The sum of the counts of the events of one funnelId, date and stage.
EventCountSum(funnelId, date, stage) ==
  LET hits == KeepIdx(events,
                      {k \in 1..Len(events) :
                         /\ events[k].funnelId = funnelId
                         /\ events[k].date = date
                         /\ events[k].stage = stage}, 1)
  IN  SumSeq([k \in 1..Len(hits) |-> hits[k].count])

SnapshotsOf(funnelId, date) ==
  {i \in 1..Len(snapshots) :
     snapshots[i].funnelId = funnelId /\ snapshots[i].date = date}

\* C4: for every (funnelId, date, stage) the count of the snapshot of that
\* funnelId and date is the sum of the counts of the events of that funnelId,
\* date and stage.
C4_CountsAreSums ==
  pc # "buildSnapshots" =>
    /\ \A k \in 1..Len(events) :
         SnapshotsOf(events[k].funnelId, events[k].date) # {}
    /\ \A i \in 1..Len(snapshots) : \A s \in FunnelStage :
         snapshots[i].stageCounts[s]
           = EventCountSum(snapshots[i].funnelId, snapshots[i].date, s)

\* C5: exactly one snapshot for each (funnelId, date) of the events and none for
\* another pair; it has a count for each of the 5 stages, 0 for a stage without
\* an event.
C5_OneSnapshotPerPair ==
  pc # "buildSnapshots" =>
    /\ \A k \in 1..Len(events) :
         Cardinality(SnapshotsOf(events[k].funnelId, events[k].date)) = 1
    /\ \A i \in 1..Len(snapshots) :
         /\ \E k \in 1..Len(events) :
              /\ events[k].funnelId = snapshots[i].funnelId
              /\ events[k].date = snapshots[i].date
         /\ DOMAIN snapshots[i].stageCounts = FunnelStage
         /\ \A s \in FunnelStage :
              (\A k \in 1..Len(events) :
                 ~(/\ events[k].funnelId = snapshots[i].funnelId
                   /\ events[k].date = snapshots[i].date
                   /\ events[k].stage = s))
              => snapshots[i].stageCounts[s] = 0

\* C6: for every snapshot and each of the 4 adjacent pairs the rate is finite,
\* toCount / fromCount when fromCount > 0 and 0 when fromCount = 0; the counts
\* are the snapshot's.
C6_RatesGuarded ==
  pc = "rates" =>
    /\ Len(conversionRates) = Len(snapshots)
    /\ \A i \in 1..Len(conversionRates) :
         /\ Len(conversionRates[i].rates) = Len(STAGE_ORDER) - 1
         /\ \A p \in StagePairs :
              LET r == conversionRates[i].rates[p]
                  fromCount == snapshots[i].stageCounts[STAGE_ORDER[p]]
                  toCount == snapshots[i].stageCounts[STAGE_ORDER[p + 1]]
              IN  /\ r.fromStage = STAGE_ORDER[p] /\ r.toStage = STAGE_ORDER[p + 1]
                  /\ r.fromCount = fromCount /\ r.toCount = toCount
                  /\ r.rate.d > 0
                  /\ fromCount > 0 => r.rate.n * fromCount = toCount * r.rate.d
                  /\ fromCount = 0 => r.rate = Zero

\* One record with a guarded pair (fromCount = 0 < toCount) and a divided pair.
C6_Witness ==
  /\ pc = "rates"
  /\ \E i \in 1..Len(conversionRates) :
       /\ \E p \in StagePairs :
            /\ conversionRates[i].rates[p].fromCount = 0
            /\ conversionRates[i].rates[p].toCount > 0
            /\ conversionRates[i].rates[p].rate = Zero
       /\ \E p \in StagePairs :
            /\ conversionRates[i].rates[p].fromCount > 0
            /\ conversionRates[i].rates[p].rate # Zero


(***************************************************************************)
(* Properties of the cause analyzer.                                       *)
(***************************************************************************)
\* The positions of the input changes a cause was scored from.
ChangesOf(cause) ==
  {k \in 1..Len(changes) : changes[k].description = cause.changeDescription}

\* Whole days from the change to the break.
GapDays(change, brk) == DayNum(brk.detectedDate) - DayNum(change.date)

Eligible(change, brk) ==
  /\ change.funnelId = brk.funnelId \/ change.funnelId = <<"*">>
  /\ 0 <= GapDays(change, brk)
  /\ GapDays(change, brk) <= analyzerConfig.maxTemporalDistanceDays

\* minConfidenceThreshold in the unit of a confidence.
Threshold == analyzerConfig.minConfidenceThreshold * 1000000

\* C7: every cause of a diagnosis comes from a change of the break's funnel or
\* of the wildcard funnel "*", dated not after the break and not more than
\* maxTemporalDistanceDays before it.
C7_CausesAreEligible ==
  \A n \in 1..Len(diagnoses) : \A i \in 1..Len(diagnoses[n].causes) :
    LET cause == diagnoses[n].causes[i]
    IN  /\ ChangesOf(cause) # {}
        /\ \A k \in ChangesOf(cause) :
              /\ cause.changeDate = changes[k].date
              /\ Eligible(changes[k], diagnoses[n].break)

\* A diagnosis lists one of two changes of its funnel and leaves out the other,
\* which is dated after the break.
C7_Witness ==
  /\ pc = "diagnoses"
  /\ \E n \in 1..Len(diagnoses) :
       /\ Len(changes) = 2
       /\ Len(diagnoses[n].causes) = 1
       /\ \E k \in 1..2 :
            /\ changes[k].funnelId = diagnoses[n].break.funnelId
            /\ GapDays(changes[k], diagnoses[n].break) < 0
            /\ k \notin ChangesOf(diagnoses[n].causes[1])

\* A diagnosis leaves out a change of another funnel and one that is too old.
C7_OtherFunnelAndTooOld ==
  /\ pc = "diagnoses"
  /\ \E n \in 1..Len(diagnoses) :
       /\ diagnoses[n].causes = <<>>
       /\ \E k, l \in 1..Len(changes) :
            /\ changes[k].funnelId \notin {diagnoses[n].break.funnelId, <<"*">>}
            /\ GapDays(changes[k], diagnoses[n].break) = 0
            /\ changes[l].funnelId = diagnoses[n].break.funnelId
            /\ GapDays(changes[l], diagnoses[n].break)
                 > analyzerConfig.maxTemporalDistanceDays

\* C8: every change that is eligible for a break (bounds of the gap included)
\* and scores at least minConfidenceThreshold is listed exactly once among the
\* causes of that break; a wildcard change is a candidate for every funnel.
C8_EligibleListedOnce ==
  pc = "diagnoses" =>
    /\ Len(diagnoses) = Len(breaks)
    /\ \A n \in 1..Len(diagnoses) : \A k \in 1..Len(changes) :
          (/\ Eligible(changes[k], breaks[n])
           /\ scoreCandidate(changes[k], breaks[n], analyzerConfig).confidence
                >= Threshold)
          => Cardinality({i \in 1..Len(diagnoses[n].causes) :
                            k \in ChangesOf(diagnoses[n].causes[i])}) = 1

\* One wildcard change is a cause of the breaks of two funnels, for one of them
\* at a gap of exactly maxTemporalDistanceDays.
C8_Witness ==
  /\ pc = "diagnoses"
  /\ \E k \in 1..Len(changes), n, m \in 1..Len(diagnoses) :
       /\ changes[k].funnelId = <<"*">>
       /\ diagnoses[n].break.funnelId # diagnoses[m].break.funnelId
       /\ GapDays(changes[k], diagnoses[n].break)
            = analyzerConfig.maxTemporalDistanceDays
       /\ \E i \in 1..Len(diagnoses[n].causes) : k \in ChangesOf(diagnoses[n].causes[i])
       /\ \E i \in 1..Len(diagnoses[m].causes) : k \in ChangesOf(diagnoses[m].causes[i])

\* C9: a diagnosis is UNKNOWN iff it lists no cause, IDENTIFIED iff it lists
\* one and the first has a confidence of at least 0.6, and UNCERTAIN otherwise.
C9_StatusFromTopCause ==
  \A n \in 1..Len(diagnoses) :
    LET d == diagnoses[n]
    IN  /\ d.diagnosisStatus = "unknown" <=> Len(d.causes) = 0
        /\ d.diagnosisStatus = "identified"
             <=> (Len(d.causes) > 0 /\ d.causes[1].confidence >= 60000000)
        /\ d.diagnosisStatus = "uncertain"
             <=> (Len(d.causes) > 0 /\ d.causes[1].confidence < 60000000)

\* A diagnosis whose first cause has a confidence of exactly 0.6 is IDENTIFIED.
C9_Witness ==
  /\ pc = "diagnoses"
  /\ \E n \in 1..Len(diagnoses) :
       /\ Len(diagnoses[n].causes) > 0
       /\ diagnoses[n].causes[1].confidence = 60000000
       /\ diagnoses[n].diagnosisStatus = "identified"

\* One call returns an UNKNOWN diagnosis without candidates and an UNCERTAIN one.
C9_UnknownAndUncertain ==
  /\ pc = "diagnoses"
  /\ \E n, m \in 1..Len(diagnoses) :
       /\ diagnoses[n].diagnosisStatus = "unknown"
       /\ \A k \in 1..Len(changes) : ~Eligible(changes[k], diagnoses[n].break)
       /\ diagnoses[m].diagnosisStatus = "uncertain"

\* C10: the causes of a diagnosis are in descending order of confidence, each
\* has a confidence of at least minConfidenceThreshold, and causes of equal
\* confidence stand in the order of their changes in the input list.
C10_CausesSortedStable ==
  \A n \in 1..Len(diagnoses) :
    LET causes == diagnoses[n].causes
    IN  /\ \A i \in 1..Len(causes) : causes[i].confidence >= Threshold
        /\ \A i, j \in 1..Len(causes) :
              i < j =>
                /\ causes[i].confidence >= causes[j].confidence
                /\ causes[i].confidence = causes[j].confidence
                     => \A k \in ChangesOf(causes[i]), l \in ChangesOf(causes[j]) : k < l

\* Two causes of equal confidence are listed, of changes of different
\* categories.
C10_Witness ==
  /\ pc = "diagnoses"
  /\ \E n \in 1..Len(diagnoses) :
       /\ Len(diagnoses[n].causes) = 2
       /\ diagnoses[n].causes[1].confidence = diagnoses[n].causes[2].confidence
       /\ diagnoses[n].causes[1].changeCategory # diagnoses[n].causes[2].changeCategory

\* The later change of the input is listed first, for its higher confidence.
C10_Reordered ==
  /\ pc = "diagnoses"
  /\ \E n \in 1..Len(diagnoses) :
       /\ Len(diagnoses[n].causes) = 2
       /\ ChangesOf(diagnoses[n].causes[1]) = {2}
       /\ diagnoses[n].causes[1].confidence > diagnoses[n].causes[2].confidence

\* An eligible change is not listed, for its confidence below the threshold.
C10_Dropped ==
  /\ pc = "diagnoses"
  /\ \E n \in 1..Len(diagnoses), k \in 1..Len(changes) :
       /\ Eligible(changes[k], diagnoses[n].break)
       /\ \A i \in 1..Len(diagnoses[n].causes) : k \notin ChangesOf(diagnoses[n].causes[i])


(***************************************************************************)
(* Properties of the service.                                              *)
(***************************************************************************)
ClickToLanding(brk) == brk.fromStage = "click" /\ brk.toStage = "landing"

\* C11: 18 days at landing 900 and 5 days at landing 400 (impression 10000,
\* click 1200) give, with the default configuration, a click->landing break of
\* relativeDrop > 0.15 and severity CRITICAL; a site change of severity 4 dated
\* on the break's detectedDate and affecting "landing" is the first cause, with
\* a confidence of at least 0.6, and the diagnosis is IDENTIFIED.
C11_EndToEnd ==
  pc = "done" =>
    /\ \E n \in 1..Len(diagnoses) :
          /\ ClickToLanding(diagnoses[n].break)
          /\ RGt(diagnoses[n].break.relativeDrop, Rat(15, 100))
          /\ diagnoses[n].break.severity = "critical"
    /\ \A n \in 1..Len(diagnoses), k \in 1..Len(changes) :
          (/\ ClickToLanding(diagnoses[n].break)
           /\ changes[k].category = "site"
           /\ changes[k].date = diagnoses[n].break.detectedDate)
          => /\ Len(diagnoses[n].causes) > 0
             /\ diagnoses[n].causes[1].changeDescription = changes[k].description
             /\ diagnoses[n].causes[1].confidence >= 60000000
             /\ diagnoses[n].diagnosisStatus = "identified"

\* The site change is dated on the break's detectedDate, an ad change of the
\* same day precedes it in the input, and the site change is the first cause.
C11_Witness ==
  /\ pc = "done"
  /\ Len(changes) = 2 /\ changes[2].category = "site"
  /\ \E n \in 1..Len(diagnoses) :
       /\ ClickToLanding(diagnoses[n].break)
       /\ diagnoses[n].break.detectedDate = changes[2].date
       /\ Len(diagnoses[n].causes) = 2
       /\ diagnoses[n].causes[1].changeCategory = "site"


(***************************************************************************)
(* Properties of the score of a candidate.                                 *)
(***************************************************************************)
\* The causes of all diagnoses, each with the break and the change it links.
Scored ==
  UNION {UNION {{[cause |-> diagnoses[n].causes[i], brk |-> diagnoses[n].break,
                  change |-> changes[k]] : k \in ChangesOf(diagnoses[n].causes[i])} :
                i \in 1..Len(diagnoses[n].causes)} :
         n \in 1..Len(diagnoses)}

\* The change names the break's fromStage or toStage among its affected stages.
NamesBreakStage(change, brk) ==
  /\ change.affectedStages # Undefined
  /\ \E k \in 1..Len(change.affectedStages) :
       change.affectedStages[k] \in {brk.fromStage, brk.toStage}

\* C17: the stageMatchBonus of a scored candidate is 0.2 when the change's
\* affectedStages is a non-empty list that contains the break's fromStage or
\* toStage, and 0 when it is absent, empty or names other stages only.
C17_StageMatchBonus ==
  \A s \in Scored :
    s.cause.scoreBreakdown.stageMatchBonus
      = IF NamesBreakStage(s.change, s.brk) THEN 200000 ELSE 0

\* One candidate names the break's fromStage and gets 0.2, the other names
\* another stage only and gets 0.
C17_Witness ==
  /\ pc = "diagnoses"
  /\ \E s1, s2 \in Scored :
       /\ s1.change.affectedStages = <<"impression", "click">>
       /\ s1.cause.scoreBreakdown.stageMatchBonus = 200000
       /\ s2.change.affectedStages = <<"impression">>
       /\ s2.cause.scoreBreakdown.stageMatchBonus = 0

\* Candidates without a list and with an empty list get 0.
C17_AbsentAndEmpty ==
  /\ pc = "diagnoses"
  /\ \E s1, s2 \in Scored :
       /\ s1.change.affectedStages = Undefined
       /\ s2.change.affectedStages = <<>>
       /\ s1.cause.scoreBreakdown.stageMatchBonus = 0
       /\ s2.cause.scoreBreakdown.stageMatchBonus = 0

\* C18: the severityScore of a change is (clamp(severity, 1, 5) - 1) / 4: 0 for
\* a severity of 1 or less, 0.5 for 3, 1 for 5 or more; it lies in [0, 1] and
\* does not decrease as the severity grows.
C18_SeverityScore ==
  /\ \A s \in Scored :
       LET score == s.cause.scoreBreakdown.severityScore
           severity == s.change.severity
       IN  /\ 0 <= score /\ score <= 1000000
           /\ severity <= 1 => score = 0
           /\ severity = 3 => score = 500000
           /\ severity >= 5 => score = 1000000
           /\ (1 <= severity /\ severity <= 5) => 4 * score = (severity - 1) * 1000000
  /\ \A s1, s2 \in Scored :
       s1.change.severity <= s2.change.severity
         => s1.cause.scoreBreakdown.severityScore <= s2.cause.scoreBreakdown.severityScore

\* Changes of severity 0 and 7 are scored 0 and 1.
C18_Witness ==
  /\ pc = "diagnoses"
  /\ \E s1, s2 \in Scored :
       /\ s1.change.severity = 0 /\ s1.cause.scoreBreakdown.severityScore = 0
       /\ s2.change.severity = 7 /\ s2.cause.scoreBreakdown.severityScore = 1000000

\* Two scored candidates of one break whose changes differ in the date alone.
DifferInDateOnly(s1, s2) ==
  /\ s1.brk = s2.brk
  /\ s1.change.date # s2.change.date
  /\ s1.change.funnelId = s2.change.funnelId
  /\ s1.change.category = s2.change.category
  /\ s1.change.severity = s2.change.severity
  /\ s1.change.affectedStages = s2.change.affectedStages

\* The temporalScore is 1 at gap 0, about 0.6065 at gap 1, about 0.2231 at gap
\* 3, and falls as the gap grows.
TemporalScoreAsSpecified ==
  /\ \A s \in Scored :
       LET score == s.cause.scoreBreakdown.temporalScore
           gap == GapDays(s.change, s.brk)
       IN  /\ gap = 0 => score = 1000000
           /\ gap = 1 => (606450 <= score /\ score <= 606550)
           /\ gap = 3 => (223050 <= score /\ score <= 223150)
  /\ \A s1, s2 \in Scored :
       (s1.brk = s2.brk /\ GapDays(s1.change, s1.brk) < GapDays(s2.change, s2.brk))
         => s1.cause.scoreBreakdown.temporalScore > s2.cause.scoreBreakdown.temporalScore

\* C19 as stated: the temporalScore is exp(-0.5 * gap), and of two eligible
\* changes that differ in the date alone the one closer to the break has the
\* strictly higher confidence.
C19_CloserStrictlyHigher ==
  /\ TemporalScoreAsSpecified
  /\ \A s1, s2 \in Scored :
       (DifferInDateOnly(s1, s2) /\ GapDays(s1.change, s1.brk) < GapDays(s2.change, s2.brk))
         => s1.cause.confidence > s2.cause.confidence

\* C19 amended: the temporalScore is exp(-0.5 * gap), and of two eligible
\* changes that differ in the date alone the one closer to the break has, when
\* the temporalWeight is not negative, a confidence at least as high, and a
\* strictly higher one under the default configuration.
C19_CloserNeverLower ==
  /\ TemporalScoreAsSpecified
  /\ \A s1, s2 \in Scored :
       (DifferInDateOnly(s1, s2) /\ GapDays(s1.change, s1.brk) < GapDays(s2.change, s2.brk))
         => /\ analyzerConfig.temporalWeight >= 0
                 => s1.cause.confidence >= s2.cause.confidence
            /\ analyzerConfig = DefaultAnalyzerConfig
                 => s1.cause.confidence > s2.cause.confidence

\* Under the default configuration a same-day change and one of the day
\* before, equal otherwise, are both listed, the same-day one first.
C19_Witness ==
  /\ pc = "diagnoses"
  /\ analyzerConfig = DefaultAnalyzerConfig
  /\ \E s1, s2 \in Scored :
       /\ DifferInDateOnly(s1, s2)
       /\ GapDays(s1.change, s1.brk) = 0 /\ GapDays(s2.change, s2.brk) = 1
       /\ s1.cause.confidence > s2.cause.confidence
       /\ diagnoses[1].causes[1] = s1.cause

(***************************************************************************)
(* Properties of the CSV loaders.                                          *)
(***************************************************************************)
AllDigits(text) == text # <<>> /\ \A i \in 1..Len(text) : IsDigit(text[i])

DaysInMonth(year, month) ==
  IF month = 2
  THEN IF year % 4 = 0 /\ (year % 100 # 0 \/ year % 400 = 0) THEN 29 ELSE 28
  ELSE IF month \in {4, 6, 9, 11} THEN 30 ELSE 31

\* The text is a real calendar day written YYYY-MM-DD.
IsCalendarDay(text) ==
  /\ text # Undefined
  /\ MatchesDateFormat(text)
  /\ DigitsValue(text, 6, 7) \in 1..12
  /\ DigitsValue(text, 9, 10) \in 1..DaysInMonth(DigitsValue(text, 1, 4), DigitsValue(text, 6, 7))

\* The text is one of the enumerated tokens, in either case of its letters.
IsStageToken(text) == \E stage \in FunnelStage : StageText(stage) = toLowerCase(text)

IsCategoryToken(text) ==
  \E category \in ChangeCategory : CategoryText(category) = toLowerCase(text)

WellFormedEventRow(row) ==
  /\ IsCalendarDay(row.date)
  /\ IsStageToken(row.stage)
  /\ AllDigits(row.count)

WellFormedChangeRow(row) ==
  /\ IsCalendarDay(row.date)
  /\ IsCategoryToken(row.category)
  /\ AllDigits(row.severity) /\ DigitsValue(row.severity, 1, Len(row.severity)) \in 1..5

\* The rows a loader reported: those an error names by its line.
ReportedRows == {k \in 1..Len(rows) : \E e \in 1..Len(loadErrors) : loadErrors[e].line = k + 1}

\* C20: a loader accepts a row only if it is well-formed (a real calendar day
\* written YYYY-MM-DD, an enumerated stage or category, a non-negative integer
\* count or an integer severity in 1..5): every row that is not well-formed is
\* reported as an error and the accepted records are as many as the rows that
\* are not reported, so none of them comes of a malformed field.
C20_OnlyWellFormedRowsAccepted ==
  /\ pc = "eventsLoaded" =>
       /\ \A k \in 1..Len(rows) : ~WellFormedEventRow(rows[k]) => k \in ReportedRows
       /\ Len(events) = Len(rows) - Cardinality(ReportedRows)
  /\ pc = "changesLoaded" =>
       /\ \A k \in 1..Len(rows) : ~WellFormedChangeRow(rows[k]) => k \in ReportedRows
       /\ Len(changes) = Len(rows) - Cardinality(ReportedRows)

\* What the loaders do ensure: an accepted row has a date of the shape
\* dddd-dd-dd, an enumerated token, and a number that starts with digits of a
\* value in range; the rows the tests reject are rejected.
LoadersCheckShapeOnly ==
  /\ pc = "eventsLoaded" =>
       \A k \in 1..Len(rows) :
         k \notin ReportedRows <=>
           /\ ~Falsy(rows[k].date) /\ MatchesDateFormat(rows[k].date)
           /\ IsStageToken(rows[k].stage)
           /\ ~IsNaN(parseInt(rows[k].count)) /\ parseInt(rows[k].count).n >= 0
  /\ pc = "changesLoaded" =>
       \A k \in 1..Len(rows) :
         k \notin ReportedRows <=>
           /\ ~Falsy(rows[k].date) /\ MatchesDateFormat(rows[k].date)
           /\ IsCategoryToken(rows[k].category)
           /\ ~IsNaN(parseInt(rows[k].severity)) /\ parseInt(rows[k].severity).n \in 1..5

\* The rows no error names, in file order.
RECURSIVE UnreportedFrom(_)
UnreportedFrom(k) ==
  IF k > Len(rows) THEN <<>>
  ELSE (IF k \in ReportedRows THEN <<>> ELSE <<k>>) \o UnreportedFrom(k + 1)

\* The errors are tagged with lines of data rows, a line at most once.
ErrorsTagRows ==
  /\ \A e \in 1..Len(loadErrors) : loadErrors[e].line \in 2..(Len(rows) + 1)
  /\ \A e, f \in 1..Len(loadErrors) : loadErrors[e].line = loadErrors[f].line => e = f

\* C21: a loader turns every parsed data row into exactly one outcome, one
\* accepted record or one error tagged with the row's line: the errors name
\* distinct data rows, the accepted records are the records of the rows no error
\* names, in file order, each the record the row yields when loaded alone, and
\* records plus errors are as many as the rows.
C21_OneOutcomePerRow ==
  /\ pc = "eventsLoaded" =>
       LET kept == UnreportedFrom(1)
       IN  /\ ErrorsTagRows
           /\ Len(events) = Len(kept)
           /\ Len(events) + Len(loadErrors) = Len(rows)
           /\ \A i \in 1..Len(kept) :
                 /\ events[i].date = rows[kept[i]].date
                 /\ << events[i] >> = loadEventsFromCsv(<< rows[kept[i]] >>).events
           /\ \A k \in ReportedRows : loadEventsFromCsv(<< rows[k] >>).events = <<>>
  /\ pc = "changesLoaded" =>
       LET kept == UnreportedFrom(1)
       IN  /\ ErrorsTagRows
           /\ Len(changes) = Len(kept)
           /\ Len(changes) + Len(loadErrors) = Len(rows)
           /\ \A i \in 1..Len(kept) :
                 /\ changes[i].date = rows[kept[i]].date
                 /\ << changes[i] >> = loadChangesFromCsv(<< rows[kept[i]] >>).changes
           /\ \A k \in ReportedRows : loadChangesFromCsv(<< rows[k] >>).changes = <<>>

\* A rejected row is followed by an accepted one, which is loaded.
C21_Witness ==
  /\ pc = "eventsLoaded"
  /\ Len(rows) = 2
  /\ ReportedRows = {1}
  /\ Len(events) = 1 /\ Len(loadErrors) = 1

\* The same in a changes file, with the accepted row first.
C21_ChangesWitness ==
  /\ pc = "changesLoaded"
  /\ Len(rows) = 2
  /\ ReportedRows = {2}
  /\ Len(changes) = 1 /\ Len(loadErrors) = 1

C22_NoValidEvent ==
  /\ pc = "done" /\ rows # <<>>
  /\ Len(rows.events) = 2 /\ metadata.eventsLoaded = 0
  /\ metadata.changesLoaded >= 1
  /\ diagnoses = <<>>

(***************************************************************************)
(* Properties of the event repository.                                     *)
(***************************************************************************)
\* The key of an event: an absent source counts as the empty text.
KeyOfEvent(evt) ==
  << evt.date, evt.funnelId, evt.stage, IF evt.source = Undefined THEN <<>> ELSE evt.source >>

RowsOfKey(d, key) == {d.events[i] : i \in {j \in 1..Len(d.events) : RowKey(d.events[j]) = key}}

KeysOf(d) == {RowKey(d.events[i]) : i \in 1..Len(d.events)}

\* The table holds at most one row per (date, funnelId, stage, source).
OneRowPerKey ==
  \A i, j \in 1..Len(db.events) : RowKey(db.events[i]) = RowKey(db.events[j]) => i = j

\* A call of insertMany: every key of the batch has one row, with the count of
\* the last event of the batch with that key, and the rows of the other keys
\* are as before; a batch with a row the table refuses leaves the table as it
\* was.
InsertManyReplaces ==
  pc' = "inserted" =>
    LET batch == events'
        keys  == {KeyOfEvent(batch[i]) : i \in 1..Len(batch)}
        last(key) == CHOOSE i \in 1..Len(batch) :
                       /\ KeyOfEvent(batch[i]) = key
                       /\ \A j \in 1..Len(batch) : KeyOfEvent(batch[j]) = key => j <= i
    IN  IF \A i \in 1..Len(batch) : batch[i].count >= 0
        THEN /\ KeysOf(db') = KeysOf(db) \cup keys
             /\ \A key \in keys :
                   \A row \in RowsOfKey(db', key) : row.count = batch[last(key)].count
             /\ \A key \in KeysOf(db) \ keys : RowsOfKey(db', key) = RowsOfKey(db, key)
        ELSE db' = db

\* A call of findByFunnel returns the rows of one funnel, an event for each.
FindByFunnelReturnsAll ==
  pc' = "found" =>
    \E funnelId \in {<<"a">>, <<"b">>} :
      LET ofFunnel == {i \in 1..Len(db.events) : db.events[i].funnel_id = funnelId}
      IN  /\ Len(events') = Cardinality(ofFunnel)
          /\ \A i \in ofFunnel :
                \E e \in 1..Len(events') :
                  /\ KeyOfEvent(events'[e]) = RowKey(db.events[i])
                  /\ events'[e].count = db.events[i].count

\* C23: after any sequence of insertMany calls the events table holds at most
\* one row per (date, funnelId, stage, source), an absent source stored as the
\* empty text; the row's count is that of the event of that key inserted last;
\* events that differ in a field of the key are all kept, and findByFunnel
\* returns them.
C23_InsertOrReplace ==
  /\ []OneRowPerKey
  /\ [][InsertManyReplaces /\ FindByFunnelReturnsAll]_vars

\* An event replaced the row of an earlier call that had its key, and the row
\* left has the count of the later event.
C23_Witness ==
  /\ pc = "inserted"
  /\ Len(events) = 1 /\ events[1].count = 2
  /\ Len(db.events) = 1 /\ db.seq = 2
  /\ db.events[1].count = 2 /\ db.events[1].source = <<>>

\* findByFunnel returned three events that differ in one field of the key.
C23_AllRetained ==
  /\ pc = "found"
  /\ Len(events) = 3
  /\ \E i, j \in 1..3 : events[i].source = Undefined /\ events[j].source = <<"m">>

\* A batch with a negative count was refused as a whole.
C23_RolledBack ==
  /\ pc = "inserted"
  /\ Len(events) = 2 /\ events[1].count = 2 /\ events[2].count < 0
  /\ Len(db.events) = 1 /\ db.events[1].count = 1

(***************************************************************************)
(* Properties of the divide-by-zero guard.                                 *)
(***************************************************************************)
\* The dates whose record has no count to divide by for the transition: its
\* rate 0 comes of the guard.
GuardedDates(funnelId, fromStage, toStage) ==
  {conversionRates[k].date :
     k \in {j \in 1..Len(conversionRates) :
              /\ conversionRates[j].funnelId = funnelId
              /\ \E r \in 1..Len(conversionRates[j].rates) :
                    /\ conversionRates[j].rates[r].fromStage = fromStage
                    /\ conversionRates[j].rates[r].toStage = toStage
                    /\ conversionRates[j].rates[r].fromCount = 0}}

\* The flag of a break holds on the measured rates of its current window alone.
FlaggedOnMeasuredRates(brk) ==
  LET series == extractTimeSeries(FunnelRates(conversionRates, brk.funnelId),
                                  brk.fromStage, brk.toStage)
      guarded == GuardedDates(brk.funnelId, brk.fromStage, brk.toStage)
      cur == currentPoints(series, brk.detectedDate, detectorConfig)
      measured == KeepIdx(cur, {k \in 1..Len(cur) : cur[k].date \notin guarded}, 1)
      base == baselinePoints(series, brk.detectedDate, detectorConfig)
      baselineRates == [k \in 1..Len(base) |-> base[k].rate]
      baselineMean == mean(baselineRates)
      absoluteDrop == RSub(baselineMean, mean([k \in 1..Len(measured) |-> measured[k].rate]))
  IN  /\ Len(measured) > 0
      /\ Flagged(RDiv(absoluteDrop, baselineMean),
                 RDiv(RMul(absoluteDrop, absoluteDrop),
                      RMax(stddevSq(baselineRates), Rat(1, 10000))),
                 detectorConfig)

\* C24: a rate 0 that comes of the divide-by-zero guard is not taken for a
\* conversion of 0%: a day without a count to divide by does not lower the mean
\* of the current window, so every break flagged is flagged on the measured
\* rates of its current window.
C24_GuardZeroIsNoDrop ==
  pc = "done" => \A i \in 1..Len(allBreaks) : FlaggedOnMeasuredRates(allBreaks[i])

(***************************************************************************)
(* Properties of the order of the input.                                   *)
(***************************************************************************)
\* The list with the records at i and j exchanged.
Exchanged(crs, i, j) ==
  [k \in 1..Len(crs) |-> IF k = i THEN crs[j] ELSE IF k = j THEN crs[i] ELSE crs[k]]

\* C25: the list detectBreaks returns depends on the set of the input records
\* only, not on their order: with the input reversed, or with any two of its
\* records exchanged, detectBreaks returns the same breaks in the same order.
C25_InputOrderIrrelevant ==
  pc = "breaks" =>
    /\ detectBreaks(Reverse(conversionRates), detectorConfig) = breaks
    /\ \A i, j \in 1..Len(conversionRates) :
          detectBreaks(Exchanged(conversionRates, i, j), detectorConfig) = breaks

(***************************************************************************)
(* Properties of the windows.                                              *)
(***************************************************************************)
\* The points of a series dated from `oldest` to `newest` days before the date.
PointsDaysBefore(timeSeries, date, newest, oldest) ==
  KeepIdx(timeSeries,
          {k \in 1..Len(timeSeries) :
             DayNum(date) - DayNum(timeSeries[k].date) \in newest..oldest}, 1)

WindowsAsSpecified(timeSeries, date, config) ==
  LET cur  == currentPoints(timeSeries, date, config)
      base == baselinePoints(timeSeries, date, config)
      cw   == config.currentWindowDays
      bw   == config.baselineWindowDays
  IN  /\ cur = PointsDaysBefore(timeSeries, date, 0, cw - 1)
      /\ base = PointsDaysBefore(timeSeries, date, cw, bw + cw - 1)
      /\ \A c \in 1..Len(cur), b \in 1..Len(base) :
            /\ cur[c].date # base[b].date
            /\ DayNum(base[b].date) < DayNum(cur[c].date)
      /\ \A c \in 1..Len(cur) : DayNum(cur[c].date) <= DayNum(date)
      /\ \A b \in 1..Len(base) : DayNum(base[b].date) < DayNum(date)
      /\ Len(cur) + Len(base) <= Len(timeSeries)
      /\ \A c \in 1..Len(cur) : \E k \in 1..Len(timeSeries) : timeSeries[k] = cur[c]
      /\ \A b \in 1..Len(base) : \E k \in 1..Len(timeSeries) : timeSeries[k] = base[b]

\* C26: for every detection date of a series the current window is the points
\* dated 0 to currentWindowDays-1 days before it and the baseline window the
\* points dated currentWindowDays to baselineWindowDays+currentWindowDays-1
\* days before it: the windows are disjoint, the baseline points are older than
\* the current ones, no point after the date is in a window, and a date without
\* a record gives no point.
C26_WindowsAsSpecified ==
  pc = "breaks" =>
    \A funnelId \in InputFunnelIds, i \in 1..(Len(STAGE_ORDER) - 1) :
      LET timeSeries == extractTimeSeries(FunnelRates(conversionRates, funnelId),
                                          STAGE_ORDER[i], STAGE_ORDER[i + 1])
      IN  \A k \in 1..Len(timeSeries) :
            WindowsAsSpecified(timeSeries, timeSeries[k].date, detectorConfig)

\* A detection date with a later record, a record one window before it and a
\* day between them without a record.
C26_Witness ==
  /\ pc = "breaks"
  /\ detectorConfig.currentWindowDays = 1 /\ detectorConfig.baselineWindowDays = 2
  /\ LET timeSeries == extractTimeSeries(FunnelRates(conversionRates, <<"a">>),
                                         "impression", "click")
     IN  /\ {DayNum(timeSeries[k].date) : k \in 1..Len(timeSeries)} = {1, 3, 4}
         /\ Len(currentPoints(timeSeries, DateOfDay(3), detectorConfig)) = 1
         /\ Len(baselinePoints(timeSeries, DateOfDay(3), detectorConfig)) = 1

(***************************************************************************)
(* Properties of the confidence.                                           *)
(***************************************************************************)
\* The weighted sum of a score breakdown, in the unit of a confidence.
WeightedSum(scoreBreakdown) ==
  scoreBreakdown.temporalScore * analyzerConfig.temporalWeight
  + scoreBreakdown.categoryRelevanceScore * analyzerConfig.categoryWeight
  + scoreBreakdown.severityScore * analyzerConfig.severityWeight
  + scoreBreakdown.stageMatchBonus * analyzerConfig.stageMatchWeight

\* C27: the confidence of every cause is the weighted sum of its own
\* scoreBreakdown clamped to [0, 1], so it lies in [0, 1] whatever the
\* weights are, and its categoryRelevanceScore is the tabulated value of the
\* change's category for the break's adjacent stage pair.
C27_ConfidenceClamped ==
  \A s \in Scored :
    LET sum == WeightedSum(s.cause.scoreBreakdown)
    IN  /\ s.cause.confidence = (IF sum < 0 THEN 0
                                 ELSE IF sum > 100000000 THEN 100000000 ELSE sum)
        /\ 0 <= s.cause.confidence /\ s.cause.confidence <= 100000000
        /\ \E i \in StagePairs :
              /\ s.brk.fromStage = STAGE_ORDER[i] /\ s.brk.toStage = STAGE_ORDER[i + 1]
              /\ s.cause.scoreBreakdown.categoryRelevanceScore * 100
                   = CATEGORY_STAGE_RELEVANCE(s.cause.changeCategory)[i] * 1000000

\* A weighted sum above 1 is cut to 1.
C27_Witness ==
  /\ pc = "diagnoses"
  /\ \E s \in Scored :
       WeightedSum(s.cause.scoreBreakdown) > 100000000 /\ s.cause.confidence = 100000000

\* A weighted sum below 0 is raised to 0.
C27_NegativeSum ==
  /\ pc = "diagnoses"
  /\ \E s \in Scored : WeightedSum(s.cause.scoreBreakdown) < 0 /\ s.cause.confidence = 0

(***************************************************************************)
(* Properties of a reported break.                                         *)
(***************************************************************************)
\* C28: every break detectBreaks returns is consistent in itself: toStage is
\* the stage after fromStage, detectedDate is the date of a record of the
\* break's funnel, baselineRate > 0, absoluteDrop = baselineRate - currentRate,
\* relativeDrop = absoluteDrop / baselineRate, the severity is the class of
\* the break's own relativeDrop and zScore, and under a minRelativeDrop > 0
\* currentRate < baselineRate and zScore > 0.
C28_BreakConsistent ==
  pc = "breaks" =>
    \A n \in 1..Len(breaks) :
      LET brk == breaks[n]
      IN  /\ \E i \in StagePairs :
                brk.fromStage = STAGE_ORDER[i] /\ brk.toStage = STAGE_ORDER[i + 1]
          /\ \E k \in 1..Len(conversionRates) :
                /\ conversionRates[k].funnelId = brk.funnelId
                /\ conversionRates[k].date = brk.detectedDate
          /\ RGt(brk.baselineRate, Zero)
          /\ brk.absoluteDrop = RSub(brk.baselineRate, brk.currentRate)
          /\ brk.relativeDrop = RDiv(brk.absoluteDrop, brk.baselineRate)
          /\ SeverityAsSpecified(brk)
          /\ RGt(detectorConfig.minRelativeDrop, Zero) =>
                RLt(brk.currentRate, brk.baselineRate) /\ brk.zSign = 1

\* Under a minRelativeDrop > 0 a series that rises and falls gives a break, of
\* the fall.
C28_Witness ==
  /\ pc = "breaks"
  /\ RGt(detectorConfig.minRelativeDrop, Zero)
  /\ \E k, m \in 1..Len(conversionRates) :
       /\ conversionRates[k].funnelId = <<"a">> /\ conversionRates[m].funnelId = <<"a">>
       /\ DayNum(conversionRates[k].date) < DayNum(conversionRates[m].date)
       /\ RLt(RateOfPair(conversionRates[k], "impression", "click"),
              RateOfPair(conversionRates[m], "impression", "click"))
  /\ \E n \in 1..Len(breaks) :
       breaks[n].funnelId = <<"a">> /\ RLt(breaks[n].currentRate, breaks[n].baselineRate)

(***************************************************************************)
(* Properties of the deduplication.                                        *)
(***************************************************************************)
\* Two breaks of one funnel and stage pair are dated at least 2 days apart.
SameKeyTwoDaysApart ==
  \A n, m \in 1..Len(breaks) :
    (n # m /\ BreakKey(breaks[n]) = BreakKey(breaks[m]))
      => Abs(DayNum(breaks[n].detectedDate) - DayNum(breaks[m].detectedDate)) >= 2

\* C29: in the list detectBreaks returns two breaks of the same funnel and
\* stage pair are dated at least 2 days apart, and so the deduplication of
\* that list returns the list itself.
C29_DedupIdempotent ==
  pc = "breaks" =>
    /\ SameKeyTwoDaysApart
    /\ deduplicateConsecutiveBreaks(breaks) = breaks


(***************************************************************************)
(* C30.  The exit code of the CLI.  The properties read the command line   *)
(* by its grammar: the arguments from the third on are options, except the *)
(* argument after an option that takes a value, which is that value.       *)
(***************************************************************************)
ValueFlags ==
  {<<"--events">>, <<"--changes">>, <<"--format">>, <<"--baseline-days">>,
   <<"--current-days">>, <<"--min-drop">>}

RECURSIVE OptionPositionsFrom(_)
OptionPositionsFrom(i) ==
  IF i > Len(argv) THEN {}
  ELSE {i} \cup OptionPositionsFrom(i + (IF argv[i] \in ValueFlags THEN 2 ELSE 1))

OptionPositions == OptionPositionsFrom(3)

HelpPositions == {i \in OptionPositions : argv[i] = <<"--help">>}

UnknownPositions == {i \in OptionPositions : argv[i] \notin ValueFlags \cup {<<"--help">>}}

\* The value the last occurrence of an option gives it.
ValueGiven(flag) ==
  LET at == {i \in OptionPositions : argv[i] = flag}
      last == CHOOSE i \in at : \A j \in at : j <= i
  IN  IF at = {} \/ last + 1 > Len(argv) THEN <<>> ELSE argv[last + 1]

RequiredMissing == ValueGiven(<<"--events">>) = <<>> \/ ValueGiven(<<"--changes">>) = <<>>

UnknownGiven == UnknownPositions # {}

HelpReadFirst == \E i \in HelpPositions : \A j \in UnknownPositions : i < j

UnknownReadFirst == \E j \in UnknownPositions : \A i \in HelpPositions : j < i

\* C30 as stated: the exit code is 1 iff the run completed and a diagnosis has
\* a CRITICAL break, 0 iff the run completed with no CRITICAL break, and 2 iff a
\* required argument is missing, an unknown argument is given, or the run
\* throws; main produces no other exit code.
C30_ExitCodes ==
  pc # "main" =>
    /\ exitCode \in {<<0>>, <<1>>, <<2>>}
    /\ exitCode = <<1>> <=> (pc = "completed" /\ hasCritical(diagnoses))
    /\ exitCode = <<0>> <=> (pc = "completed" /\ ~hasCritical(diagnoses))
    /\ exitCode = <<2>> <=> (RequiredMissing \/ UnknownGiven \/ pc = "threw")

\* C30 with --help: the exit code is 1 iff the run completed and a diagnosis
\* has a CRITICAL break, 0 iff the run completed with no CRITICAL break or
\* --help is read as an option before any unknown argument, and 2 iff an
\* unknown argument is read before any --help, a required argument is missing
\* on a command line without --help, or the run throws; main produces no other
\* exit code, and the run starts only on a command line with the required
\* arguments and without --help and unknown arguments.
C30_ExitCodesWithHelp ==
  pc # "main" =>
    /\ exitCode \in {<<0>>, <<1>>, <<2>>}
    /\ exitCode = <<1>> <=> (pc = "completed" /\ hasCritical(diagnoses))
    /\ exitCode = <<0>> <=> \/ pc = "completed" /\ ~hasCritical(diagnoses)
                            \/ HelpReadFirst
    /\ exitCode = <<2>> <=> \/ UnknownReadFirst
                            \/ HelpPositions = {} /\ RequiredMissing
                            \/ pc = "threw"
    /\ pc \in {"completed", "threw"} =>
         /\ HelpPositions = {} /\ ~UnknownGiven /\ ~RequiredMissing
         /\ pc = "threw" <=> \E flag \in {<<"--events">>, <<"--changes">>} :
                                ~Readable(rows, ValueGiven(flag))

\* A completed run with a CRITICAL break, exit code 1.
C30_Witness ==
  /\ pc = "completed"
  /\ exitCode = <<1>>
  /\ \E d \in Range(diagnoses) : d.break.severity = "critical"

\* A completed run whose only breaks are not CRITICAL, exit code 0.
C30_CompletedNotCritical ==
  /\ pc = "completed"
  /\ exitCode = <<0>>
  /\ diagnoses # <<>>

\* --help after the required arguments: exit code 0 without a run.
C30_HelpWithoutRun ==
  /\ pc = "exited"
  /\ exitCode = <<0>>
  /\ ~RequiredMissing
  /\ metadata = <<>>

\* --help on a command line without the required arguments: exit code 0.
C30_HelpAlone ==
  /\ pc = "exited"
  /\ exitCode = <<0>>
  /\ RequiredMissing

\* A file that is not there and a file csv-parse throws on: exit code 2.
C30_RunThrows ==
  /\ pc = "threw"
  /\ exitCode = <<2>>
  /\ \/ ValueGiven(<<"--events">>) = <<"missing.csv">>
     \/ ~rows["events.csv"].parses

====
